---- MODULE Spec2Model ----
(***************************************************************************)
(* A model of the nilch search backend (backend/main.py): the FIFO         *)
(* SearchCache, the key-rotating BraveClient, the InfoboxResolver and the  *)
(* /api/search and /api/images route handlers.                             *)
(*                                                                         *)
(* Python strings that the code inspects character by character (the       *)
(* query) are sequences of one-character strings.  An Optional value is a  *)
(* sequence of length 0 (None) or 1 (the value).                           *)
(***************************************************************************)
EXTENDS Integers, Sequences, FiniteSets, TLC

VARIABLES
    capacity,   \* SearchCache._capacity
    cache,      \* SearchCache._cache, the list of CachedSearch entries
    added,      \* history: the entries passed to add, in call order
    ret,        \* the last SearchCache method call and what it returned
    api_keys,   \* BraveClient._api_keys, the credential pool
    call,       \* the last BraveClient._make_request call and its outcome
    res,        \* the last InfoboxResolver.get_infobox call and what it ended in
    req,        \* the request each handler thread serves: its locals and position
    started     \* the number of requests the server has received

cacheVars == <<capacity, cache, added, ret>>
clientVars == <<api_keys, call>>
serverVars == <<req, started>>
vars == <<cacheVars, clientVars, res, serverVars>>

(***************************************************************************)
(* Bounds                                                                  *)
(***************************************************************************)
MaxCapacity == 3    \* capacities 0..MaxCapacity are explored
MaxAdds == 4        \* add calls on the stand-alone SearchCache
MaxKeys == 3        \* credentials in the pool of the stand-alone BraveClient
IntCap == 1000000   \* the largest magnitude the modelled arithmetic holds
MaxQueryLen == 2    \* length of the queries enumerated character by character
ServerCapacity == 2 \* capacity of the server's cache (the code's default is 20)
MaxRequests == 3    \* requests the server receives

(***************************************************************************)
(* Optional values                                                         *)
(***************************************************************************)
None == <<>>
Some(x) == <<x>>
IsNone(o) == Len(o) = 0
Val(o) == o[1]

\* dict.get(key, default), and `x if x is not None else default`
GetDefault(field, default) == IF IsNone(field) THEN default ELSE Val(field)

Min(a, b) == IF a < b THEN a ELSE b

(***************************************************************************)
(* SearchCache                                                             *)
(***************************************************************************)
\* a cache key: the four criteria of a lookup
Key(query, safe_search, is_videos, page) ==
    [query |-> query, safe |-> safe_search, is_videos |-> is_videos, page |-> page]

\* CachedSearch: the dict appended by add
CachedSearch(criteria, search_results) ==
    [query |-> criteria.query, safe |-> criteria.safe,
     is_videos |-> criteria.is_videos, page |-> criteria.page,
     results |-> search_results]

KeyOf(search) == Key(search.query, search.safe, search.is_videos, search.page)

\* self._cache.append({...})
Appended(c, criteria, search_results) ==
    Append(c, CachedSearch(criteria, search_results))

\* mutant: the eviction test written with > instead of >=
AtCapacityStrict(c, cap) == Len(c) > cap

\* len(self._cache) >= self._capacity
AtCapacity(c, cap) == Len(c) >= cap

\* mutant: pop() instead of pop(0), the newest entry is removed
PoppedNewest(c) == SubSeq(c, 1, Len(c) - 1)

\* self._cache.pop(0)
Popped(c) == Tail(c)

\* SearchCache.add as one call: the list afterwards and the value returned
add(c, cap, criteria, search_results) ==
    LET a == Appended(c, criteria, search_results)
    IN  [cache |-> IF AtCapacity(a, cap) THEN Popped(a) ELSE a,
         ret   |-> search_results]

\* mutant: the page comparison is left out
MatchesIgnoringPage(search, criteria) ==
    /\ ~(search.query # criteria.query)
    /\ ~(search.safe # criteria.safe)
    /\ ~(search.is_videos # criteria.is_videos)

\* the body of the for loop of get: every `continue` test fails
Matches(search, criteria) ==
    /\ ~(search.query # criteria.query)
    /\ ~(search.safe # criteria.safe)
    /\ ~(search.is_videos # criteria.is_videos)
    /\ ~(search.page # criteria.page)

\* the for loop of get from list position i (1-based) on
RECURSIVE ScanFrom(_, _, _)
ScanFrom(c, criteria, i) ==
    IF i > Len(c) THEN None
    ELSE IF Matches(c[i], criteria) THEN Some(c[i].results)
    ELSE ScanFrom(c, criteria, i + 1)

\* mutant: an LRU cache, a hit moves the entry to the tail
get_lru(c, criteria) ==
    LET hits == {i \in 1..Len(c) : Matches(c[i], criteria)}
        first == CHOOSE i \in hits : \A j \in hits : i <= j
    IN  IF hits = {} THEN [cache |-> c, ret |-> None]
        ELSE [cache |-> Append(SubSeq(c, 1, first - 1) \o SubSeq(c, first + 1, Len(c)),
                               c[first]),
              ret   |-> Some(c[first].results)]

\* SearchCache.get as one call: the list afterwards and the value returned
get(c, criteria) ==
    [cache |-> c, ret |-> ScanFrom(c, criteria, 1)]

(***************************************************************************)
(* BraveClient                                                             *)
(***************************************************************************)
\* what one requests.get can do: answer with a status or raise
\* RequestException (timeout, connection error)
Status(code) == [raised |-> FALSE, status_code |-> code]
RequestException == [raised |-> TRUE, status_code |-> 0]

\* the requests.get issued for the credential at pool position pos
Sent(keys, pos) == [token |-> keys[pos], pos |-> pos]

\* the Response object of the call made with the credential at position pos
Response(keys, pos, o) ==
    [status_code |-> o.status_code, token |-> keys[pos], pos |-> pos]

\* mutant: a status other than 200 and 429 gives up instead of rotating
RECURSIVE RotateStopOnOther(_, _, _, _)
RotateStopOnOther(keys, outcome, i, sent) ==
    IF i > Len(keys) THEN [api_keys |-> keys, response |-> None, sent |-> sent]
    ELSE LET o == outcome[i]
             sent1 == Append(sent, Sent(keys, i))
         IN  IF o.raised THEN RotateStopOnOther(keys, outcome, i + 1, sent1)
             ELSE IF o.status_code = 200
                  THEN [api_keys |-> keys, response |-> Some(Response(keys, i, o)),
                        sent |-> sent1]
             ELSE IF o.status_code = 429
                  THEN RotateStopOnOther(keys, outcome, i + 1, sent1)
             ELSE [api_keys |-> keys, response |-> None, sent |-> sent1]

\* the for loop of _make_request from pool position i on; outcome[i] is what
\* the call with the i-th credential does, sent the calls issued so far
RECURSIVE Rotate(_, _, _, _)
Rotate(keys, outcome, i, sent) ==
    IF i > Len(keys) THEN [api_keys |-> keys, response |-> None, sent |-> sent]
    ELSE LET o == outcome[i]
             sent1 == Append(sent, Sent(keys, i))
         IN  IF o.raised THEN Rotate(keys, outcome, i + 1, sent1)
             ELSE IF o.status_code = 200
                  THEN [api_keys |-> keys, response |-> Some(Response(keys, i, o)),
                        sent |-> sent1]
             ELSE IF o.status_code = 429
                  THEN Rotate(keys, outcome, i + 1, sent1)
             ELSE Rotate(keys, outcome, i + 1, sent1)

\* mutant: a credential that was rate limited is moved to the end of the pool
_make_request_demoting(keys, outcome) ==
    [Rotate(keys, outcome, 1, <<>>) EXCEPT
        !.api_keys = IF keys # <<>> /\ outcome[1] = Status(429)
                     THEN Append(Tail(keys), Head(keys)) ELSE keys]

\* BraveClient._make_request as one call: the pool afterwards, the value
\* returned and the outbound calls issued
_make_request(keys, outcome) == Rotate(keys, outcome, 1, <<>>)

\* every way the calls of one _make_request over a pool can turn out
OutcomesOf(keys) ==
    [1..Len(keys) -> {Status(200), Status(429), Status(500), RequestException}]

(***************************************************************************)
(* Characters                                                              *)
(***************************************************************************)
\* Non-ASCII characters are written by their code points: the source's
\* character class and its second replace() hold the two Thai letters
\* U+0E23 U+0E17 (the bytes e0 b8 a3 e0 b8 97), not the division sign U+00F7.
RoRua == "U+0E23"
ThoThahan == "U+0E17"

Digits == {"0", "1", "2", "3", "4", "5", "6", "7", "8", "9"}

DigitValue(c) ==
    CASE c = "0" -> 0 [] c = "1" -> 1 [] c = "2" -> 2 [] c = "3" -> 3
      [] c = "4" -> 4 [] c = "5" -> 5 [] c = "6" -> 6 [] c = "7" -> 7
      [] c = "8" -> 8 [] c = "9" -> 9

DigitChar(d) ==
    CASE d = 0 -> "0" [] d = 1 -> "1" [] d = 2 -> "2" [] d = 3 -> "3"
      [] d = 4 -> "4" [] d = 5 -> "5" [] d = 6 -> "6" [] d = 7 -> "7"
      [] d = 8 -> "8" [] d = 9 -> "9"

\* the characters of the class that can start a Python identifier once
\* every "x" has been replaced
NameChars == {"X", RoRua, ThoThahan}

(***************************************************************************)
(* eval(equ_clean, {"__builtins__": None}, {}): Python's expression        *)
(* evaluator on the strings the character class lets through.  Values are  *)
(* ints, floats (held as exact fractions num/den), the empty tuple and     *)
(* Ellipsis.  An evaluation that leaves what the fractions can hold        *)
(* exactly (magnitudes above IntCap, floats that are no small dyadic       *)
(* fraction, complex numbers, negative zero) ends "beyond".                *)
(***************************************************************************)
Abs(n) == IF n < 0 THEN -n ELSE n

RECURSIVE Gcd(_, _)
Gcd(a, b) == IF b = 0 THEN a ELSE Gcd(b, a % b)

RECURSIVE IsPow2(_)
IsPow2(d) == IF d = 1 THEN TRUE ELSE IF d % 2 # 0 THEN FALSE ELSE IsPow2(d \div 2)

\* a * b stays within IntCap in magnitude
MulFits(a, b) == a = 0 \/ b = 0 \/ Abs(a) <= IntCap \div Abs(b)

IntV(n) == [t |-> "int", num |-> n, den |-> 1]
FloatV(n, d) == [t |-> "float", num |-> n, den |-> d]
TupleV == [t |-> "tuple", num |-> 0, den |-> 1]
BeyondV == [t |-> "beyond", num |-> 0, den |-> 1]

IsNumber(v) == v.t \in {"int", "float"}

\* the float n/d in lowest terms, beyond when it is no exact double we hold
MkFloat(n, d) ==
    LET g == Gcd(Abs(n), Abs(d))
        s == IF d < 0 THEN -1 ELSE 1
        n1 == s * (n \div g)
        d1 == s * (d \div g)
    IN  IF Abs(n1) > IntCap \/ d1 > IntCap \/ ~IsPow2(d1) THEN BeyondV
        ELSE FloatV(n1, d1)

MkInt(n) == IF Abs(n) > IntCap THEN BeyondV ELSE IntV(n)

\* what an evaluation ends in
Value(v) == [kind |-> "value", exc |-> "", v |-> v]
Raise(e) == [kind |-> "raise", exc |-> e, v |-> BeyondV]
Beyond == [kind |-> "beyond", exc |-> "", v |-> BeyondV]
Result(v) == IF v.t = "beyond" THEN Beyond ELSE Value(v)

(* ---- the tokenizer ---- *)
OpTok(s) == [t |-> "op", s |-> s, v |-> BeyondV]
NumTok(v) == [t |-> "num", s |-> "", v |-> v]
NameTok == [t |-> "name", s |-> "", v |-> BeyondV]

\* the first position from i on that holds no member of S
RECURSIVE SpanEnd(_, _, _)
SpanEnd(s, i, S) ==
    IF i <= Len(s) /\ s[i] \in S THEN SpanEnd(s, i + 1, S) ELSE i

\* the digits s[i..j-1] read in the given base on top of acc; -1 above IntCap
RECURSIVE NumValue(_, _, _, _, _)
NumValue(s, i, j, base, acc) ==
    IF i >= j THEN acc
    ELSE IF acc = -1 \/ acc * base + DigitValue(s[i]) > IntCap THEN -1
    ELSE NumValue(s, i + 1, j, base, acc * base + DigitValue(s[i]))

\* acc * n^e for n >= 2, e >= 0; -1 once the product is above IntCap
RECURSIVE PowAcc(_, _, _)
PowAcc(n, e, acc) ==
    IF e = 0 THEN acc
    ELSE IF ~MulFits(acc, n) THEN -1
    ELSE PowAcc(n, e - 1, acc * n)

\* n^e for n >= 0, e >= 0; -1 when it is above IntCap
NatPow(n, e) ==
    IF e = 0 \/ n = 1 THEN 1 ELSE IF n = 0 THEN 0 ELSE PowAcc(n, e, 1)

At(s, i) == IF i <= Len(s) THEN s[i] ELSE ""

\* the literal with integer digits s[i..j-1] and fraction digits s[j+1..k-1]
FloatLiteral(s, i, j, k) ==
    LET whole == NumValue(s, i, j, 10, 0)
        all == NumValue(s, j + 1, k, 10, whole)
        den == NatPow(10, k - j - 1)
    IN  IF all = -1 \/ den = -1 THEN BeyondV ELSE MkFloat(all, den)

\* the token that starts at position i of s (not a space) and the position
\* after it; ok is FALSE where the tokenizer reports an error
TokenAt(s, i) ==
    LET c == s[i]
        bad == [ok |-> FALSE, tok |-> NameTok, next |-> i + 1]
        one(tok, n) == [ok |-> TRUE, tok |-> tok, next |-> n]
    IN  IF c \in Digits THEN
            IF c = "0" /\ At(s, i + 1) = "X" THEN
                \* a hexadecimal literal 0X...
                LET j == SpanEnd(s, i + 2, Digits)
                    n == NumValue(s, i + 2, j, 16, 0)
                IN  IF j = i + 2 THEN bad
                    ELSE one(NumTok(IF n = -1 THEN BeyondV ELSE IntV(n)), j)
            ELSE
                LET j == SpanEnd(s, i, Digits)
                IN  IF At(s, j) = "." THEN
                        LET k == SpanEnd(s, j + 1, Digits)
                        IN  one(NumTok(FloatLiteral(s, i, j, k)), k)
                    ELSE
                        LET n == NumValue(s, i, j, 10, 0)
                        IN  IF c = "0" /\ \E p \in i..(j - 1) : s[p] # "0"
                            THEN bad   \* leading zeros in a decimal integer
                            ELSE one(NumTok(IF n = -1 THEN BeyondV ELSE IntV(n)), j)
        ELSE IF c = "." THEN
            IF At(s, i + 1) \in Digits THEN
                LET k == SpanEnd(s, i + 1, Digits)
                IN  one(NumTok(FloatLiteral(s, i, i, k)), k)
            ELSE IF At(s, i + 1) = "." /\ At(s, i + 2) = "."
                 THEN one(NumTok([t |-> "ellipsis", num |-> 0, den |-> 1]), i + 3)
            ELSE one(OpTok("."), i + 1)
        ELSE IF c = "*" THEN
            IF At(s, i + 1) = "*" THEN one(OpTok("**"), i + 2)
            ELSE one(OpTok("*"), i + 1)
        ELSE IF c = "/" THEN
            IF At(s, i + 1) = "/" THEN one(OpTok("//"), i + 2)
            ELSE one(OpTok("/"), i + 1)
        ELSE IF c \in {"+", "-", "(", ")"} THEN one(OpTok(c), i + 1)
        ELSE IF c \in NameChars
             THEN one(NameTok, SpanEnd(s, i, NameChars \cup Digits))
        ELSE bad

\* the tokens of s from position i on, appended to toks
RECURSIVE Tokenize(_, _, _)
Tokenize(s, i, toks) ==
    IF i > Len(s) THEN [ok |-> TRUE, toks |-> toks]
    ELSE IF s[i] = " " THEN Tokenize(s, i + 1, toks)
    ELSE LET t == TokenAt(s, i)
         IN  IF ~t.ok THEN [ok |-> FALSE, toks |-> toks]
             ELSE Tokenize(s, t.next, Append(toks, t.tok))

(* ---- the parser ---- *)
Node(op, kids) == [op |-> op, kids |-> kids, v |-> BeyondV]
Leaf(v) == [op |-> "leaf", kids |-> <<>>, v |-> v]
Parsed(node, i) == [ok |-> TRUE, node |-> node, i |-> i]
NoParse == [ok |-> FALSE, node |-> Leaf(BeyondV), i |-> 0]

IsOp(ts, i, s) == i <= Len(ts) /\ ts[i].t = "op" /\ ts[i].s = s

RECURSIVE ParseArith(_, _), ArithRest(_, _), ParseTerm(_, _), TermRest(_, _),
          ParseFactor(_, _), FactorJoin(_, _), ParsePower(_, _), PowerFrom(_, _),
          ParseAtom(_, _), Grouped(_, _), Trailers(_, _), CallJoin(_, _, _)

\* the binary operator op between the parsed operands l and r
Joined(op, l, r) ==
    IF r.ok THEN Parsed(Node(op, <<l.node, r.node>>), r.i) ELSE NoParse

\* arith_expr: term (('+' | '-') term)*
ParseArith(ts, i) == ArithRest(ts, ParseTerm(ts, i))

\* the rest of an arith_expr after its operand l parsed so far
ArithRest(ts, l) ==
    IF ~l.ok THEN NoParse
    ELSE IF IsOp(ts, l.i, "+") \/ IsOp(ts, l.i, "-")
    THEN ArithRest(ts, Joined(ts[l.i].s, l, ParseTerm(ts, l.i + 1)))
    ELSE l

\* term: factor (('*' | '/' | '//') factor)*
ParseTerm(ts, i) == TermRest(ts, ParseFactor(ts, i))

\* the rest of a term after its operand l parsed so far
TermRest(ts, l) ==
    IF ~l.ok THEN NoParse
    ELSE IF IsOp(ts, l.i, "*") \/ IsOp(ts, l.i, "/") \/ IsOp(ts, l.i, "//")
    THEN TermRest(ts, Joined(ts[l.i].s, l, ParseFactor(ts, l.i + 1)))
    ELSE l

\* factor: ('+' | '-') factor | power
ParseFactor(ts, i) ==
    IF IsOp(ts, i, "+") \/ IsOp(ts, i, "-")
    THEN FactorJoin(ts[i].s, ParseFactor(ts, i + 1))
    ELSE ParsePower(ts, i)

\* the sign s in front of the factor f
FactorJoin(s, f) ==
    IF f.ok THEN Parsed(Node(IF s = "-" THEN "neg" ELSE "pos", <<f.node>>), f.i)
    ELSE NoParse

\* power: primary ['**' factor], a primary being an atom and its trailers
ParsePower(ts, i) == PowerFrom(ts, Trailers(ts, ParseAtom(ts, i)))

\* the optional '**' factor after the primary p
PowerFrom(ts, p) ==
    IF p.ok /\ IsOp(ts, p.i, "**") THEN Joined("**", p, ParseFactor(ts, p.i + 1)) ELSE p

\* the trailers after the primary a parsed so far: a call
\* "(" [["*" | "**"] expr] ")" or an attribute reference "." NAME
Trailers(ts, a) ==
    IF ~a.ok THEN NoParse
    ELSE IF IsOp(ts, a.i, "(") THEN
        IF IsOp(ts, a.i + 1, ")")
        THEN Trailers(ts, Parsed(Node("call", <<a.node>>), a.i + 2))
        ELSE CallJoin(ts, a.node,
                      ParseArith(ts, IF IsOp(ts, a.i + 1, "*") \/ IsOp(ts, a.i + 1, "**")
                                     THEN a.i + 2 ELSE a.i + 1))
    ELSE IF IsOp(ts, a.i, ".") THEN
        IF a.i + 1 <= Len(ts) /\ ts[a.i + 1].t = "name"
        THEN Trailers(ts, Parsed(Node("attr", <<a.node>>), a.i + 2))
        ELSE NoParse
    ELSE a

\* the call of left with the argument arg, up to its ")"
CallJoin(ts, left, arg) ==
    IF arg.ok /\ IsOp(ts, arg.i, ")")
    THEN Trailers(ts, Parsed(Node("call", <<left, arg.node>>), arg.i + 1))
    ELSE NoParse

\* atom: NUMBER | '...' | NAME | '(' [expr] ')'
ParseAtom(ts, i) ==
    IF i > Len(ts) THEN NoParse
    ELSE IF ts[i].t = "num" THEN Parsed(Leaf(ts[i].v), i + 1)
    ELSE IF ts[i].t = "name" THEN Parsed(Node("name", <<>>), i + 1)
    ELSE IF IsOp(ts, i, "(") THEN
        IF IsOp(ts, i + 1, ")") THEN Parsed(Leaf(TupleV), i + 2)
        ELSE Grouped(ts, ParseArith(ts, i + 1))
    ELSE NoParse

\* the parenthesized expression a, up to its ")"
Grouped(ts, a) ==
    IF a.ok /\ IsOp(ts, a.i, ")") THEN Parsed(a.node, a.i + 1) ELSE NoParse

(* ---- the operators ---- *)
\* floor(a / b) for b # 0
FloorDiv(a, b) == IF b > 0 THEN a \div b ELSE (-a) \div (-b)

\* the largest k with 2^k * d <= n, for n >= d > 0
RECURSIVE Log2Floor(_, _)
Log2Floor(n, d) == IF 2 * d <= n THEN 1 + Log2Floor(n, 2 * d) ELSE 0

\* a ** b computed in floats, a and b given as fractions
FloatPow(a, b) ==
    IF b.num = 0 THEN Value(FloatV(1, 1))
    ELSE IF a.num = 0 THEN
        IF b.num < 0 THEN Raise("ZeroDivisionError") ELSE Value(FloatV(0, 1))
    ELSE IF a.num = a.den THEN Value(FloatV(1, 1))
    ELSE IF a.num < 0 /\ b.den # 1 THEN Beyond      \* a complex number
    ELSE
        LET e == Abs(b.num) \div b.den              \* floor of |b|
            \* the base with a positive exponent: a, or 1/a
            n == IF b.num > 0 THEN Abs(a.num) ELSE a.den
            d == IF b.num > 0 THEN a.den ELSE Abs(a.num)
            odd == b.den = 1 /\ e % 2 = 1
            sign == IF a.num < 0 /\ odd THEN -1 ELSE 1
        IN  IF n > d /\ Log2Floor(n, d) * e >= 1024 THEN Raise("OverflowError")
            ELSE IF b.den # 1 \/ e > IntCap THEN Beyond
            ELSE LET pn == NatPow(n, e)
                     pd == NatPow(d, e)
                 IN  IF pn = -1 \/ pd = -1 THEN Beyond
                     ELSE Result(MkFloat(sign * pn, pd))

\* the value of a unary operator
Unary(op, a) ==
    IF ~IsNumber(a) THEN Raise("TypeError")
    ELSE IF op = "pos" THEN Value(a)
    ELSE IF a.t = "int" THEN Value(IntV(-a.num))
    ELSE IF a.num = 0 THEN Beyond                   \* -0.0
    ELSE Value(FloatV(-a.num, a.den))

\* the value of a binary operator on two ints
IntOp(op, a, b) ==
    CASE op = "+" -> Result(MkInt(a + b))
      [] op = "-" -> Result(MkInt(a - b))
      [] op = "*" -> IF MulFits(a, b) THEN Value(IntV(a * b)) ELSE Beyond
      [] op = "//" -> IF b = 0 THEN Raise("ZeroDivisionError")
                      ELSE Value(IntV(FloorDiv(a, b)))
      [] op = "/" -> IF b = 0 THEN Raise("ZeroDivisionError")
                     ELSE IF a = 0 /\ b < 0 THEN Beyond
                     ELSE Result(MkFloat(a, b))
      [] op = "**" -> IF b >= 0 THEN
                          LET p == NatPow(Abs(a), b)
                          IN  IF p = -1 THEN Beyond
                              ELSE Value(IntV(IF a < 0 /\ b % 2 = 1 THEN -p ELSE p))
                      ELSE IF a = 0 THEN Raise("ZeroDivisionError")
                      ELSE FloatPow(IntV(a), IntV(b))

\* the value of a binary operator on two numbers, one of them a float
FloatOp(op, a, b) ==
    LET fits == MulFits(a.num, b.den) /\ MulFits(b.num, a.den)
                    /\ MulFits(a.den, b.den) /\ MulFits(a.num, b.num)
        negzero == (a.num = 0 /\ b.num < 0) \/ (b.num = 0 /\ a.num < 0)
    IN  IF op = "**" THEN FloatPow(a, b)
        ELSE IF op \in {"/", "//"} /\ b.num = 0 THEN Raise("ZeroDivisionError")
        ELSE IF ~fits THEN Beyond
        ELSE IF op = "+"
             THEN Result(MkFloat(a.num * b.den + b.num * a.den, a.den * b.den))
        ELSE IF op = "-"
             THEN Result(MkFloat(a.num * b.den - b.num * a.den, a.den * b.den))
        ELSE IF negzero THEN Beyond
        ELSE IF op = "*" THEN Result(MkFloat(a.num * b.num, a.den * b.den))
        ELSE IF op = "/" THEN Result(MkFloat(a.num * b.den, a.den * b.num))
        ELSE Value(FloatV(FloorDiv(a.num * b.den, a.den * b.num), 1))

\* the value of a binary operator
Binary(op, a, b) ==
    IF IsNumber(a) /\ IsNumber(b) THEN
        IF a.t = "int" /\ b.t = "int" THEN IntOp(op, a.num, b.num)
        ELSE FloatOp(op, a, b)
    ELSE IF op = "+" /\ a.t = "tuple" /\ b.t = "tuple" THEN Value(TupleV)
    ELSE IF op = "*" /\ {a.t, b.t} = {"tuple", "int"} THEN Value(TupleV)
    ELSE Raise("TypeError")

(* ---- the evaluation of a parsed expression, operands left to right ---- *)
RECURSIVE Evaluate(_)
Evaluate(n) ==
    IF n.op = "leaf" THEN Result(n.v)
    ELSE IF n.op = "name" THEN Raise("NameError")
    ELSE LET a == Evaluate(n.kids[1])
         IN  IF a.kind # "value" THEN a
             ELSE IF n.op \in {"neg", "pos"} THEN Unary(n.op, a.v)
             ELSE IF n.op = "attr" THEN Raise("AttributeError")
             ELSE IF n.op = "call" THEN
                 IF Len(n.kids) = 1 THEN Raise("TypeError")
                 ELSE LET b == Evaluate(n.kids[2])
                      IN  IF b.kind # "value" THEN b ELSE Raise("TypeError")
             ELSE LET b == Evaluate(n.kids[2])
                  IN  IF b.kind # "value" THEN b ELSE Binary(n.op, a.v, b.v)

\* the parsed tokens evaluated; p must have consumed all of toks
EvalParsed(toks, p) ==
    IF ~p.ok \/ p.i # Len(toks) + 1 THEN Raise("SyntaxError") ELSE Evaluate(p.node)

\* the tokens t parsed and evaluated
EvalTokens(t) ==
    IF ~t.ok THEN Raise("SyntaxError") ELSE EvalParsed(t.toks, ParseArith(t.toks, 1))

\* eval(source) with no names and no builtins
eval(source) == EvalTokens(Tokenize(source, 1, <<>>))

(* ---- str(value) ---- *)
\* the decimal digits of n >= 0
RECURSIVE NatStr(_)
NatStr(n) == IF n < 10 THEN <<DigitChar(n)>> ELSE Append(NatStr(n \div 10), DigitChar(n % 10))

\* the k decimal digits of n < 10^k, with leading zeros
RECURSIVE Padded(_, _)
Padded(n, k) == IF k = 0 THEN <<>> ELSE Append(Padded(n \div 10, k - 1), DigitChar(n % 10))

RECURSIVE Log2(_)
Log2(d) == IF d = 1 THEN 0 ELSE 1 + Log2(d \div 2)

RECURSIVE Pow5(_)
Pow5(k) == IF k = 0 THEN 1 ELSE 5 * Pow5(k - 1)

\* the digits a float may have after the point for its repr to be held here
MaxFractionDigits == 8

\* str(v) as a sequence of characters; <<>> where it is beyond the model
str(v) ==
    CASE v.t = "int" ->
            IF v.num < 0 THEN <<"-">> \o NatStr(-v.num) ELSE NatStr(v.num)
      [] v.t = "tuple" -> <<"(", ")">>
      [] v.t = "ellipsis" -> <<"E", "l", "l", "i", "p", "s", "i", "s">>
      [] v.t = "float" ->
            LET k == Log2(v.den)
                whole == Abs(v.num) \div v.den
                frac == Abs(v.num) % v.den
                sign == IF v.num < 0 THEN <<"-">> ELSE <<>>
            \* a float of at most MaxFractionDigits binary places is at least
            \* 2^-8, above the 0.0001 where repr switches to exponents
            IN  IF k > MaxFractionDigits THEN <<>>
                ELSE IF k = 0 THEN sign \o NatStr(whole) \o <<".", "0">>
                ELSE sign \o NatStr(whole) \o <<".">> \o Padded(frac * Pow5(k), k)
      [] OTHER -> <<>>

(***************************************************************************)
(* Text helpers: str methods and the regular expressions of the resolver   *)
(***************************************************************************)
UpperCase == <<"A", "B", "C", "D", "E", "F", "G", "H", "I", "J", "K", "L", "M",
               "N", "O", "P", "Q", "R", "S", "T", "U", "V", "W", "X", "Y", "Z">>
LowerCase == <<"a", "b", "c", "d", "e", "f", "g", "h", "i", "j", "k", "l", "m",
               "n", "o", "p", "q", "r", "s", "t", "u", "v", "w", "x", "y", "z">>

\* the lower-case form re.IGNORECASE compares by.  Besides the capital
\* letters, four characters outside ASCII fold to an ASCII letter: the
\* dotted capital I (U+0130) and the dotless i (U+0131) to i, the long s
\* (U+017F) to s and the Kelvin sign (U+212A) to k
Lower(c) ==
    IF \E i \in 1..26 : UpperCase[i] = c
    THEN LowerCase[CHOOSE i \in 1..26 : UpperCase[i] = c]
    ELSE IF c \in {"U+0130", "U+0131"} THEN "i"
    ELSE IF c = "U+017F" THEN "s"
    ELSE IF c = "U+212A" THEN "k"
    ELSE c

\* s with leading and trailing spaces removed: str.strip()
RECURSIVE strip(_)
strip(s) ==
    IF s = <<>> THEN s
    ELSE IF Head(s) = " " THEN strip(Tail(s))
    ELSE IF s[Len(s)] = " " THEN strip(SubSeq(s, 1, Len(s) - 1))
    ELSE s

\* s with every occurrence of old, left to right, replaced by new:
\* str.replace(old, new) for a non-empty old
RECURSIVE replace(_, _, _)
replace(s, old, new) ==
    IF s = <<>> THEN s
    ELSE IF Len(old) <= Len(s) /\ SubSeq(s, 1, Len(old)) = old
         THEN new \o replace(SubSeq(s, Len(old) + 1, Len(s)), old, new)
    ELSE <<Head(s)>> \o replace(Tail(s), old, new)

\* c matches expr_pattern's class [+\-/*<U+0E23><U+0E17>x()0-9.^ ] under
\* re.IGNORECASE
InExprClass(c) ==
    LET ExprChars ==
            {"+", "-", "/", "*", RoRua, ThoThahan, "x", "(", ")", ".", "^", " "} \cup Digits
    IN  c \in ExprChars \/ Lower(c) \in ExprChars

\* [a-zA-Z] under re.IGNORECASE
InWordClass(c) == \E i \in 1..26 : Lower(c) = LowerCase[i]

\* c is in the named character class of a pattern
InClass(class, c) ==
    IF class = "expr" THEN InExprClass(c) ELSE InWordClass(c)

\* re.match(r'^<prefix>(<class>+)<suffix>$', query, re.IGNORECASE) for a
\* literal prefix and suffix and a character class: the group, or None.
\* "$" lets the match end at the end of the string or just before a newline
\* that ends the string
MatchGroup(prefix, class, suffix, query) ==
    LET s == IF query # <<>> /\ query[Len(query)] = "\n"
             THEN SubSeq(query, 1, Len(query) - 1) ELSE query
        first == Len(prefix) + 1
        last == Len(s) - Len(suffix)
    IN  IF /\ first <= last
           /\ \A i \in 1..Len(prefix) : Lower(s[i]) = prefix[i]
           /\ \A i \in 1..Len(suffix) : Lower(s[last + i]) = suffix[i]
           /\ \A i \in first..last : InClass(class, s[i])
        THEN Some(SubSeq(s, first, last))
        ELSE None

(***************************************************************************)
(* InfoboxResolver._solve_math                                             *)
(***************************************************************************)
\* maths_patterns: the literal text before and after the expression group
maths_patterns ==
    << [prefix |-> <<"w", "h", "a", "t", " ", "i", "s", " ">>, suffix |-> <<>>],
       [prefix |-> <<"s", "o", "l", "v", "e", " ">>, suffix |-> <<>>],
       [prefix |-> <<"c", "a", "l", "c", " ">>, suffix |-> <<>>],
       [prefix |-> <<"c", "a", "l", "c", "u", "l", "a", "t", "e", " ">>, suffix |-> <<>>],
       [prefix |-> <<>>, suffix |-> <<>>],
       [prefix |-> <<>>, suffix |-> <<"=">>] >>

\* equ.replace("x", "*").replace("<U+0E23><U+0E17>", "/").replace("^", "**")
Sanitize(equ) ==
    replace(replace(replace(equ, <<"x">>, <<"*">>),
                    <<RoRua, ThoThahan>>, <<"/">>),
            <<"^">>, <<"*", "*">>)

\* the exceptions the except clause of _solve_math names
CaughtByMath ==
    {"SyntaxError", "ZeroDivisionError", "NameError", "TypeError", "ValueError"}

\* what a method call ends in: a returned Optional infobox, or an exception
\* that leaves the method
Return(box) == [kind |-> "return", exc |-> "", box |-> box]
Unmodelled == [kind |-> "beyond", exc |-> "", box |-> None]

\* the dict returned for the expression equ_clean and its printed result
Calc(equ_clean, result) ==
    IF result = <<>> THEN Unmodelled
    ELSE Return(Some([infotype |-> "calc", equ |-> equ_clean, result |-> result]))

\* the try statement, e being what eval(equ_clean) ended in
Solved(equ_clean, e) ==
    IF e.kind = "beyond" THEN Unmodelled
    ELSE IF e.kind = "value" THEN Calc(equ_clean, str(e.v))
    ELSE IF e.exc \in CaughtByMath THEN Return(None)
    ELSE [kind |-> "raise", exc |-> e.exc, box |-> None]

SolveClean(equ_clean) == Solved(equ_clean, eval(equ_clean))

\* the for loop over maths_patterns from pattern i on
RECURSIVE SolveFrom(_, _)
SolveFrom(query, i) ==
    IF i > Len(maths_patterns) THEN Return(None)
    ELSE LET m == MatchGroup(maths_patterns[i].prefix, "expr",
                             maths_patterns[i].suffix, query)
         IN  IF ~IsNone(m) THEN SolveClean(Sanitize(strip(Val(m))))
             ELSE SolveFrom(query, i + 1)

\* InfoboxResolver._solve_math
_solve_math(query) == SolveFrom(query, 1)

(***************************************************************************)
(* InfoboxResolver._get_definition, _get_wikipedia_summary, get_infobox    *)
(*                                                                         *)
(* Texts other than the query (urls, titles) are sequences of pieces; a    *)
(* piece is the unit the "in", split and replace of the code work on.      *)
(***************************************************************************)
\* the outbound request of a strategy and what came back
Request(service, target, pos, o) ==
    [service |-> service, target |-> target, pos |-> pos,
     raised |-> o.raised, status_code |-> o.status_code]

\* what a strategy that may send requests ends in
Returns(box, sent) == [kind |-> "return", exc |-> "", box |-> box, sent |-> sent]

\* the first definition text that is truthy, or None
RECURSIVE FirstDefinition(_, _)
FirstDefinition(definitions, i) ==
    IF i > Len(definitions) THEN None
    ELSE IF ~IsNone(definitions[i].definition) /\ Val(definitions[i].definition) # ""
         THEN definitions[i].definition
    ELSE FirstDefinition(definitions, i + 1)

\* InfoboxResolver._get_definition; o is what the dictionary request does
_get_definition(query, o) ==
    LET def_match0 == MatchGroup(<<"w", "h", "a", "t", " ", "d", "o", "e", "s", " ">>,
                                 "word", <<" ", "m", "e", "a", "n">>, query)
        def_match1 == MatchGroup(<<"d", "e", "f", "i", "n", "e", " ">>,
                                 "word", <<>>, query)
        word == IF ~IsNone(def_match0) THEN def_match0
                ELSE IF ~IsNone(def_match1) THEN def_match1
                ELSE None
    IN  IF IsNone(word) THEN Returns(None, <<>>)
        ELSE LET sent == <<Request("wiktionary", Val(word), 0, o)>>
             IN  IF o.raised THEN Returns(None, sent)
                 ELSE IF o.status_code # 200 THEN Returns(None, sent)
                 ELSE IF ~IsNone(o.data.en) /\ Len(Val(o.data.en)) > 0
                      THEN Returns(
                               Some([word |-> Val(word),
                                     type |-> Val(o.data.en)[1].partOfSpeech,
                                     definition |->
                                         FirstDefinition(Val(o.data.en)[1].definitions, 1),
                                     url |-> <<"https://en.wiktionary.org/wiki/">> \o Val(word),
                                     infotype |-> "definition"]),
                               sent)
                 ELSE Returns(None, sent)

\* the first position of piece t in s, 0 if there is none
FirstIndex(s, t) ==
    IF \E i \in 1..Len(s) : s[i] = t
    THEN CHOOSE i \in 1..Len(s) : s[i] = t /\ \A j \in 1..(i - 1) : s[j] # t
    ELSE 0

\* title.split(" - Wikipedia")[0].replace(" ", "_")
FormattedTitle(title) ==
    LET cut == FirstIndex(title, " - Wikipedia")
        title_part == IF cut = 0 THEN title ELSE SubSeq(title, 1, cut - 1)
    IN  replace(title_part, <<" ">>, <<"_">>)

\* mutant: the scan ends at the first candidate whose request fails
RECURSIVE WikipediaFromAbort(_, _, _, _)
WikipediaFromAbort(web_results, outcome, i, sent) ==
    IF i > Min(3, Len(web_results)) THEN Returns(None, sent)
    ELSE LET res_url == GetDefault(web_results[i].url, <<>>)
         IN  IF FirstIndex(res_url, "wikipedia.org") # 0 THEN
                 LET o == outcome[i]
                     formatted_title == FormattedTitle(GetDefault(web_results[i].title, <<>>))
                     sent1 == Append(sent, Request("wikipedia", formatted_title, i, o))
                 IN  IF o.raised \/ o.status_code # 200 THEN Returns(None, sent1)
                     ELSE Returns(Some([title |-> o.data.title,
                                        info |-> o.data.extract,
                                        url |-> o.data.page,
                                        infotype |-> "wikipedia"]),
                                  sent1)
             ELSE WikipediaFromAbort(web_results, outcome, i + 1, sent)

\* the for loop of _get_wikipedia_summary from result i (1-based) on;
\* outcome[i] is what the summary request for result i does
RECURSIVE WikipediaFrom(_, _, _, _)
WikipediaFrom(web_results, outcome, i, sent) ==
    IF i > Min(3, Len(web_results)) THEN Returns(None, sent)
    ELSE LET res_url == GetDefault(web_results[i].url, <<>>)
         IN  IF FirstIndex(res_url, "wikipedia.org") # 0 THEN
                 LET o == outcome[i]
                     formatted_title == FormattedTitle(GetDefault(web_results[i].title, <<>>))
                     sent1 == Append(sent, Request("wikipedia", formatted_title, i, o))
                 IN  IF o.raised THEN WikipediaFrom(web_results, outcome, i + 1, sent1)
                     ELSE IF o.status_code # 200
                          THEN WikipediaFrom(web_results, outcome, i + 1, sent1)
                     ELSE Returns(Some([title |-> o.data.title,
                                        info |-> o.data.extract,
                                        url |-> o.data.page,
                                        infotype |-> "wikipedia"]),
                                  sent1)
             ELSE WikipediaFrom(web_results, outcome, i + 1, sent)

\* InfoboxResolver._get_wikipedia_summary
_get_wikipedia_summary(web_results, outcome) ==
    WikipediaFrom(web_results, outcome, 1, <<>>)

\* what get_infobox ends in: the strategies run, in order, and the requests
\* sent, in order
Resolved(kind, exc, box, tried, sent) ==
    [kind |-> kind, exc |-> exc, box |-> box, tried |-> tried, sent |-> sent]

\* `if math_result:` on an Optional dict: not None and not empty
Truthy(box) == ~IsNone(box) /\ DOMAIN Val(box) # {}

\* line 235: the Wikipedia summary is what is left to return
AfterDefinition(def, wiki) ==
    Resolved("return", "", wiki.box, <<"math", "definition", "wikipedia">>,
             def.sent \o wiki.sent)

\* mutant: the definition's result is returned even when it is absent
AfterMathNoFallback(web_results, env, def) ==
    Resolved("return", "", def.box, <<"math", "definition">>, def.sent)

\* lines 230-235, def being what _get_definition returned
AfterMath(web_results, env, def) ==
    IF Truthy(def.box)
    THEN Resolved("return", "", def.box, <<"math", "definition">>, def.sent)
    ELSE AfterDefinition(def, _get_wikipedia_summary(web_results, env.wiki))

\* lines 225-235, math being what _solve_math ended in
WithMath(web_results, query, env, math) ==
    IF math.kind # "return"
    THEN Resolved(math.kind, math.exc, None, <<"math">>, <<>>)
    ELSE IF Truthy(math.box)
    THEN Resolved("return", "", math.box, <<"math">>, <<>>)
    ELSE AfterMath(web_results, env, _get_definition(query, env.dict))

\* the strategies after a Wikipedia lookup made first that found nothing
WikipediaThenMath(wiki, math, def) ==
    IF math.kind # "return"
    THEN Resolved(math.kind, math.exc, None, <<"wikipedia", "math">>, wiki.sent)
    ELSE IF Truthy(math.box)
    THEN Resolved("return", "", math.box, <<"wikipedia", "math">>, wiki.sent)
    ELSE Resolved("return", "", def.box, <<"wikipedia", "math", "definition">>,
                  wiki.sent \o def.sent)

WikipediaFirst(query, env, wiki) ==
    IF Truthy(wiki.box)
    THEN Resolved("return", "", wiki.box, <<"wikipedia">>, wiki.sent)
    ELSE WikipediaThenMath(wiki, _solve_math(query), _get_definition(query, env.dict))

\* mutant: the Wikipedia summary is looked up before the other strategies
get_infobox_wikipedia_first(web_results, query, env) ==
    WikipediaFirst(query, env, _get_wikipedia_summary(web_results, env.wiki))

\* InfoboxResolver.get_infobox; env.dict and env.wiki are what the
\* dictionary and the summary requests do
get_infobox(web_results, query, env) ==
    WithMath(web_results, query, env, _solve_math(query))

(***************************************************************************)
(* What the dictionary and the encyclopedia can answer                     *)
(***************************************************************************)
Answer(code, data) == [raised |-> FALSE, status_code |-> code, data |-> data]
Failure(data) == [raised |-> TRUE, status_code |-> 0, data |-> data]

DictNoEnglish == [en |-> None]

DictOutcomes ==
    {Failure(DictNoEnglish), Answer(404, DictNoEnglish), Answer(200, DictNoEnglish),
     Answer(200, [en |-> Some(<<>>)]),
     Answer(200, [en |-> Some(<<[partOfSpeech |-> Some("noun"),
                                 definitions |-> <<[definition |-> Some("")],
                                                   [definition |-> Some("a test definition")]>>]>>)]),
     Answer(200, [en |-> Some(<<[partOfSpeech |-> None, definitions |-> <<>>]>>)])}

\* Wikipedia summary payloads: complete, and without content_urls
WikiSummary ==
    [title |-> Some("Python"), extract |-> Some("Summary"),
     page |-> Some("https://example.com")]

WikiOutcomes ==
    {Failure(WikiSummary), Answer(404, WikiSummary), Answer(200, WikiSummary),
     Answer(200, [WikiSummary EXCEPT !.page = None])}

\* every way the requests of one get_infobox call can turn out
Environments == [dict : DictOutcomes, wiki : [1..3 -> WikiOutcomes]]

(***************************************************************************)
(* BraveClient.get_web_results                                             *)
(***************************************************************************)
\* the body of a 200 answer of the search service
JsonData(web, results) == [web |-> web, results |-> results]

\* BraveClient.get_web_results: the value returned and the requests sent;
\* outcome[i] is what the call with the i-th credential does, json_data the
\* body of a 200 answer
get_web_results(keys, is_videos, outcome, json_data) ==
    LET r == _make_request(keys, outcome)
    IN  IF ~IsNone(r.response) /\ Val(r.response).status_code = 200
        THEN [ret |-> Some(IF is_videos
                           THEN GetDefault(json_data.results, <<>>)
                           ELSE GetDefault(GetDefault(json_data.web, [results |-> None]).results,
                                           <<>>)),
              sent |-> r.sent]
        ELSE [ret |-> None, sent |-> r.sent]

\* the list comprehension of get_img_results from raw item i on: an item
\* without "thumbnail" is dropped; None if a kept item lacks "url" or its
\* thumbnail lacks "src" (KeyError)
RECURSIVE Thumbnails(_, _)
Thumbnails(raw_results, i) ==
    IF i > Len(raw_results) THEN Some(<<>>)
    ELSE IF "thumbnail" \notin DOMAIN raw_results[i] THEN Thumbnails(raw_results, i + 1)
    ELSE IF IsNone(raw_results[i].url) \/ IsNone(raw_results[i].thumbnail.src)
         THEN None
    ELSE IF IsNone(Thumbnails(raw_results, i + 1)) THEN None
    ELSE Some(<<[url |-> Val(raw_results[i].url),
                 img |-> Val(raw_results[i].thumbnail.src)]>>
              \o Val(Thumbnails(raw_results, i + 1)))

\* BraveClient.get_img_results: the value returned, or the KeyError raised,
\* and the requests sent
get_img_results(keys, outcome, json_data) ==
    LET r == _make_request(keys, outcome)
    IN  IF ~IsNone(r.response) /\ Val(r.response).status_code = 200
        THEN IF IsNone(Thumbnails(GetDefault(json_data.results, <<>>), 1))
             THEN [kind |-> "raise", exc |-> "KeyError", ret |-> None, sent |-> r.sent]
             ELSE [kind |-> "return", exc |-> "",
                   ret |-> Thumbnails(GetDefault(json_data.results, <<>>), 1),
                   sent |-> r.sent]
        ELSE [kind |-> "return", exc |-> "", ret |-> None, sent |-> r.sent]

(***************************************************************************)
(* int(page_arg)                                                           *)
(***************************************************************************)

RECURSIVE StripWhitespace(_)
StripWhitespace(s) ==
    IF s = <<>> THEN s
    ELSE IF Head(s) \in {" ", "\n", "\t"} THEN StripWhitespace(Tail(s))
    ELSE IF s[Len(s)] \in {" ", "\n", "\t"} THEN StripWhitespace(SubSeq(s, 1, Len(s) - 1))
    ELSE s

\* int(text) for a str: Some(n), or None where int raises ValueError
int(text) ==
    LET s == StripWhitespace(text)
        signed == s # <<>> /\ s[1] \in {"+", "-"}
        body == IF signed THEN Tail(s) ELSE s
        digits == SelectSeq(body, LAMBDA c : c # "_")
        wellformed ==
            /\ body # <<>>
            /\ \A i \in 1..Len(body) : body[i] \in Digits \cup {"_"}
            /\ body[1] # "_"
            /\ body[Len(body)] # "_"
            /\ \A i \in 1..(Len(body) - 1) : ~(body[i] = "_" /\ body[i + 1] = "_")
    IN  IF ~wellformed THEN None
        ELSE LET n == NumValue(digits, 1, Len(digits) + 1, 10, 0)
             IN  Some(IF signed /\ s[1] = "-" THEN -n ELSE n)

(***************************************************************************)
(* The route handler results() of GET /api/search                          *)
(*                                                                         *)
(* The server handles requests on threads of their own: each request is a  *)
(* process over the shared search_cache.  The loop of SearchCache.get and  *)
(* the statements of SearchCache.add are steps of their own, so that the   *)
(* threads interleave where the interpreter can switch between them.       *)
(***************************************************************************)
Requests == {"r1", "r2"}

\* what a handler answers with: a string body, the JSON object, or the
\* exception that left the handler
Text(s) == [text |-> s]
Json(infobox, results_list) == [infobox |-> infobox, results |-> results_list]
ServerError(e) == [error |-> e]

\* the query parameters of one request; an argument not sent is None
Args(q, safe, videos, page) == [q |-> q, safe |-> safe, videos |-> videos, page |-> page]

\* a request thread that handles nothing.  Besides the handler's locals a
\* request keeps, as history, the route it came in by, the calls the
\* handler made on the cache, the client and the resolver (calls), the
\* requests sent to the search service (sent), what get_infobox ended in
\* (resolved) and the query parameters it came with (args)
Idle ==
    [pc |-> "idle", route |-> "", args |-> Args(None, None, None, None), query |-> <<>>, safe_search |-> "", is_videos |-> FALSE,
     page |-> 0, i |-> 0, cached |-> None, fetched_results |-> None,
     results_list |-> <<>>, infobox |-> None, calls |-> <<>>, sent |-> <<>>,
     resolved |-> None, reply |-> None]

\* the request after its handler called the named method
Called(r, method) == [r EXCEPT !.calls = Append(r.calls, method)]

\* the key the handler looks up and stores under
Criteria(r) == Key(r.query, r.safe_search, r.is_videos, r.page)

\* mutant: a request without q is handled as one with an empty query
StartEmptyQuery(p, args) ==
    /\ req[p].pc = "idle"
    /\ started < MaxRequests
    /\ started' = started + 1
    /\ req' = [req EXCEPT ![p] =
                  [Idle EXCEPT
                      !.pc = "get",
                      !.route = "search",
                      !.args = args,
                      !.query = GetDefault(args.q, <<>>),
                      !.safe_search = GetDefault(args.safe, "strict"),
                      !.is_videos = (args.videos = Some("true")),
                      !.page = IF IsNone(args.page) THEN 0
                               ELSE GetDefault(int(Val(args.page)), 0),
                      !.i = 1]]
    /\ UNCHANGED <<cacheVars, clientVars, res>>

\* lines 366-382: the arguments are read; "noquery" without q, else the
\* defaults are applied and the cache lookup begins
Start(p, args) ==
    /\ req[p].pc = "idle"
    /\ started < MaxRequests
    /\ started' = started + 1
    /\ req' = [req EXCEPT ![p] =
                  IF IsNone(args.q)
                  THEN [Idle EXCEPT !.pc = "done", !.route = "search", !.args = args,
                                    !.reply = Some(Text("noquery"))]
                  ELSE [Idle EXCEPT
                           !.pc = "get",
                           !.route = "search",
                           !.args = args,
                           !.query = Val(args.q),
                           !.safe_search = GetDefault(args.safe, "strict"),
                           !.is_videos = (args.videos = Some("true")),
                           !.page = IF IsNone(args.page) THEN 0
                                    ELSE GetDefault(int(Val(args.page)), 0),
                           !.i = 1]]
    /\ UNCHANGED <<cacheVars, clientVars, res>>

\* mutant: a hit does not keep the handler from fetching
GetStepRefetch(p) ==
    LET r == IF req[p].i = 1 THEN Called(req[p], "search_cache.get") ELSE req[p]
    IN  /\ r.pc = "get"
        /\ req' = [req EXCEPT ![p] =
                      IF r.i > Len(cache) THEN [r EXCEPT !.pc = "fetch"]
                      ELSE IF Matches(cache[r.i], Criteria(r))
                           THEN [r EXCEPT !.pc = "fetch",
                                          !.cached = Some(cache[r.i]),
                                          !.results_list = cache[r.i].results]
                      ELSE [r EXCEPT !.i = r.i + 1]]
        /\ UNCHANGED <<cacheVars, clientVars, res, started>>

\* one iteration of the for loop of SearchCache.get (lines 131-141) and the
\* test of its result (lines 385-389)
GetStep(p) ==
    LET r == IF req[p].i = 1 THEN Called(req[p], "search_cache.get") ELSE req[p]
    IN  /\ r.pc = "get"
        /\ req' = [req EXCEPT ![p] =
                      IF r.i > Len(cache) THEN [r EXCEPT !.pc = "fetch"]
                      ELSE IF Matches(cache[r.i], Criteria(r))
                           THEN [r EXCEPT !.pc = "resolve",
                                          !.cached = Some(cache[r.i]),
                                          !.results_list = cache[r.i].results]
                      ELSE [r EXCEPT !.i = r.i + 1]]
        /\ UNCHANGED <<cacheVars, clientVars, res, started>>

\* mutant: an absent fetch is stored and answered like an empty result list
FetchedOrEmpty(r, f) ==
    [r EXCEPT !.pc = "append", !.sent = f.sent, !.fetched_results = f.ret,
              !.results_list = GetDefault(f.ret, <<>>)]

\* lines 392-397: the request after get_web_results returned f
Fetched(r, f) ==
    IF IsNone(f.ret)
    THEN [r EXCEPT !.pc = "done", !.sent = f.sent, !.fetched_results = f.ret,
                   !.reply = Some(Text("noresults"))]
    ELSE [r EXCEPT !.pc = "append", !.sent = f.sent, !.fetched_results = f.ret,
                   !.results_list = Val(f.ret)]

\* lines 391-397: the upstream fetch after a miss
Fetch(p, outcome, json_data) ==
    /\ req[p].pc = "fetch"
    /\ req' = [req EXCEPT ![p] =
                  Fetched(Called(req[p], "get_web_results"),
                          get_web_results(api_keys, req[p].is_videos, outcome, json_data))]
    /\ UNCHANGED <<cacheVars, clientVars, res, started>>

\* SearchCache.add, lines 102-108: the append
AddAppend(p) ==
    LET r == req[p]
    IN  /\ r.pc = "append"
        /\ cache' = Appended(cache, Criteria(r), r.results_list)
        /\ req' = [req EXCEPT ![p] = [Called(r, "search_cache.add") EXCEPT !.pc = "check"]]
        /\ UNCHANGED <<capacity, added, ret, clientVars, res, started>>

\* SearchCache.add, line 109: the test of the size
AddCheck(p) ==
    /\ req[p].pc = "check"
    /\ req' = [req EXCEPT ![p].pc = IF AtCapacity(cache, capacity) THEN "pop" ELSE "resolve"]
    /\ UNCHANGED <<cacheVars, clientVars, res, started>>

\* SearchCache.add, lines 110-111: the eviction and the return
AddPop(p) ==
    /\ req[p].pc = "pop"
    /\ IF cache = <<>>
       THEN /\ req' = [req EXCEPT ![p].pc = "done",
                                  ![p].reply = Some(ServerError("IndexError"))]
            /\ UNCHANGED cache
       ELSE /\ cache' = Popped(cache)
            /\ req' = [req EXCEPT ![p].pc = "resolve"]
    /\ UNCHANGED <<capacity, added, ret, clientVars, res, started>>

\* mutant: an absent infobox is sent as the JSON null
RespondNull(r, infobox) ==
    [r EXCEPT !.pc = "done", !.infobox = infobox, !.reply =
        IF IsNone(infobox)
        THEN Some(Json([null |-> TRUE], r.results_list))
        ELSE Some(Json([dict |-> Val(infobox)], r.results_list))]

\* lines 404-414: the response of request r with the local infobox; the
\* infobox of the JSON object is the legacy string "null" or the dict
Respond(r, infobox) ==
    [r EXCEPT !.pc = "done", !.infobox = infobox, !.reply =
        IF IsNone(infobox)
        THEN Some(Json([str |-> "null"], r.results_list))
        ELSE Some(Json([dict |-> Val(infobox)], r.results_list))]

\* lines 402-414: the request r once get_infobox ended in g (a query whose
\* arithmetic the model does not hold leaves the request where it is)
AfterInfobox(r, g) ==
    IF g.kind = "beyond" THEN r
    ELSE IF g.kind = "raise"
    THEN [r EXCEPT !.pc = "done", !.resolved = Some(g), !.reply = Some(ServerError(g.exc))]
    ELSE Respond([r EXCEPT !.resolved = Some(g)], g.box)

\* mutant: the infobox is resolved for video requests too
ResolveAlways(p, env) ==
    /\ req[p].pc = "resolve"
    /\ req' = [req EXCEPT ![p] =
                  AfterInfobox(Called(req[p], "get_infobox"),
                               get_infobox(req[p].results_list, req[p].query, env))]
    /\ UNCHANGED <<cacheVars, clientVars, res, started>>

\* lines 399-414: the infobox, resolved unless videos were asked for, and
\* the response
Resolve(p, env) ==
    /\ req[p].pc = "resolve"
    /\ req' = [req EXCEPT ![p] =
                  IF req[p].is_videos THEN Respond(req[p], None)
                  ELSE AfterInfobox(Called(req[p], "get_infobox"),
                                 get_infobox(req[p].results_list, req[p].query, env))]
    /\ UNCHANGED <<cacheVars, clientVars, res, started>>

(***************************************************************************)
(* The route handler images() of GET /api/images                           *)
(***************************************************************************)
\* jsonify(results_list): the JSON array of the response
Jsonify(results_list) == [array |-> results_list]

\* lines 422-428: the arguments are read; "noquery" without q
StartImages(p, args) ==
    /\ req[p].pc = "idle"
    /\ started < MaxRequests
    /\ started' = started + 1
    /\ req' = [req EXCEPT ![p] =
                  IF IsNone(args.q)
                  THEN [Idle EXCEPT !.pc = "done", !.route = "images", !.args = args,
                                    !.reply = Some(Text("noquery"))]
                  ELSE [Idle EXCEPT !.pc = "images", !.route = "images", !.args = args,
                                    !.query = Val(args.q),
                                    !.safe_search = GetDefault(args.safe, "strict")]]
    /\ UNCHANGED <<cacheVars, clientVars, res>>

\* mutant: an empty list of images is answered like an absent one
ImagesFetchedFalsy(r, f) ==
    IF f.kind = "raise"
    THEN [r EXCEPT !.pc = "done", !.sent = f.sent, !.reply = Some(ServerError(f.exc))]
    ELSE IF GetDefault(f.ret, <<>>) = <<>>
    THEN [r EXCEPT !.pc = "done", !.sent = f.sent, !.reply = Some(Text("noresults"))]
    ELSE [r EXCEPT !.pc = "done", !.sent = f.sent, !.fetched_results = f.ret,
                   !.results_list = Val(f.ret), !.reply = Some(Jsonify(Val(f.ret)))]

\* lines 430-435: the request r after get_img_results ended in f
ImagesFetched(r, f) ==
    IF f.kind = "raise"
    THEN [r EXCEPT !.pc = "done", !.sent = f.sent, !.reply = Some(ServerError(f.exc))]
    ELSE IF IsNone(f.ret)
    THEN [r EXCEPT !.pc = "done", !.sent = f.sent, !.reply = Some(Text("noresults"))]
    ELSE [r EXCEPT !.pc = "done", !.sent = f.sent, !.fetched_results = f.ret,
                   !.results_list = Val(f.ret), !.reply = Some(Jsonify(Val(f.ret)))]

\* lines 430-435: the upstream fetch and the response
FetchImages(p, outcome, json_data) ==
    /\ req[p].pc = "images"
    /\ req' = [req EXCEPT ![p] =
                  ImagesFetched(Called(req[p], "get_img_results"),
                                get_img_results(api_keys, outcome, json_data))]
    /\ UNCHANGED <<cacheVars, clientVars, res, started>>

\* the response is sent and the thread is free for the next request
Finish(p) ==
    /\ req[p].pc = "done"
    /\ req' = [req EXCEPT ![p] = Idle]
    /\ UNCHANGED <<cacheVars, clientVars, res, started>>

(***************************************************************************)
(* Inputs of the stand-alone SearchCache                                   *)
(***************************************************************************)
Q1 == <<"q", "1">>

\* one base key and the four keys that differ from it in exactly one field
K0 == Key(Q1, "strict", FALSE, 0)
CacheKeys ==
    { K0,
      Key(<<"q", "2">>, "strict", FALSE, 0),
      Key(Q1, "off", FALSE, 0),
      Key(Q1, "strict", TRUE, 0),
      Key(Q1, "strict", FALSE, 1) }

NoCall == [op |-> "none", key |-> K0, value |-> None]

\* no _make_request call was made yet (earlier: what the request with the
\* first credential did in the call before the last one, None if there was
\* no such request)
NoRequest ==
    [op |-> "none", outcome |-> <<>>, response |-> None, sent |-> <<>>, earlier |-> None]

Asked(query, web_results) ==
    [op |-> "asked", query |-> query, web_results |-> web_results,
     env |-> [dict |-> Failure(DictNoEnglish), wiki |-> [i \in 1..3 |-> Failure(WikiSummary)]],
     kind |-> "", exc |-> "", box |-> None, tried |-> <<>>, sent |-> <<>>]
Answered(query, web_results, env, g) ==
    [op |-> "get_infobox", query |-> query, web_results |-> web_results, env |-> env,
     kind |-> g.kind, exc |-> g.exc, box |-> g.box, tried |-> g.tried, sent |-> g.sent]
NoResolve == Asked(<<>>, <<>>)

(***************************************************************************)
(* The stand-alone SearchCache: a constructor call, then add and get calls *)
(***************************************************************************)
InitCache ==
    /\ capacity \in 0..MaxCapacity
    /\ cache = <<>>
    /\ added = <<>>
    /\ ret = NoCall
    /\ api_keys = <<>>
    /\ call = NoRequest
    /\ res = NoResolve
    /\ req = [p \in Requests |-> Idle]
    /\ started = 0

CacheAdd(criteria) ==
    LET search_results == <<Len(added) + 1>>
        r == add(cache, capacity, criteria, search_results)
    IN  /\ Len(added) < MaxAdds
        /\ cache' = r.cache
        /\ added' = Append(added, CachedSearch(criteria, search_results))
        /\ ret' = [op |-> "add", key |-> criteria, value |-> Some(r.ret)]
        /\ UNCHANGED <<capacity, clientVars, res, serverVars>>

CacheGet(criteria) ==
    LET r == get(cache, criteria)
    IN  /\ cache' = r.cache
        /\ ret' = [op |-> "get", key |-> criteria, value |-> r.ret]
        /\ UNCHANGED <<capacity, added, clientVars, res, serverVars>>

NextCache ==
    \/ \E criteria \in CacheKeys : CacheAdd(criteria)
    \/ \E criteria \in CacheKeys : CacheGet(criteria)

SpecCache == InitCache /\ [][NextCache]_vars

(***************************************************************************)
(* The stand-alone BraveClient: a constructor call with a credential pool, *)
(* then _make_request calls                                                *)
(***************************************************************************)

InitClient ==
    /\ api_keys \in UNION {[1..len -> {"k1", "k2"}] : len \in 0..MaxKeys}
    /\ call = NoRequest
    /\ capacity = 0
    /\ cache = <<>>
    /\ added = <<>>
    /\ ret = NoCall
    /\ res = NoResolve
    /\ req = [p \in Requests |-> Idle]
    /\ started = 0

MakeRequest(outcome) ==
    LET r == _make_request(api_keys, outcome)
    IN  /\ api_keys' = r.api_keys
        /\ call' = [op |-> "request", outcome |-> outcome,
                    response |-> r.response, sent |-> r.sent,
                    earlier |-> IF call.outcome = <<>> THEN None
                                ELSE Some(call.outcome[1])]
        /\ UNCHANGED <<cacheVars, res, serverVars>>

NextClient == \E outcome \in OutcomesOf(api_keys) : MakeRequest(outcome)

SpecClient == InitClient /\ [][NextClient]_vars

(***************************************************************************)
(* The stand-alone InfoboxResolver: one get_infobox call on a query and a  *)
(* list of web results                                                     *)
(***************************************************************************)
\* web results as the search service lists them: url and title in pieces
WikiItem ==
    [url |-> Some(<<"https://en.", "wikipedia.org", "/wiki/Python">>),
     title |-> Some(<<"Python", " ", "(programming", " ", "language)", " - Wikipedia">>)]
PlainItem == [url |-> Some(<<"https://example.com">>), title |-> Some(<<"Example">>)]

WebResultLists ==
    {<<>>, <<WikiItem>>, <<PlainItem, WikiItem, PlainItem>>,
     <<WikiItem, WikiItem, WikiItem, WikiItem>>,
     <<[url |-> None, title |-> None], PlainItem, PlainItem, WikiItem>>,
     <<[url |-> Some(<<"https://de.", "wikipedia.org", "/">>), title |-> None], WikiItem>>}

NamedQueries ==
    {<<"2", "+", "2">>,
     <<"2", "+", "2", "=">>,
     <<"2", "/", "0">>,
     <<"5", "^", "2">>,
     <<"6", "/", "2">>,
     <<"W", "h", "a", "t", " ", "i", "s", " ", "3", "*", "3">>,
     <<"s", "o", "l", "v", "e", " ", "2", " ", "x", " ", "3">>,
     <<"c", "a", "l", "c", " ", "(", "2", "+", "3", ")", "*", "4">>,
     <<"C", "a", "l", "c", "u", "l", "a", "t", "e", " ", "7", "-", "1", "0">>,
     <<"6", "U+00F7", "2">>,
     <<"6", RoRua, ThoThahan, "2">>,
     <<"2", ".", "^", "1", "0", "2", "4">>,
     <<"2", ".", "0", "^", "9", "9", "9", "9">>,
     <<"1", " ", ".", "X">>,
     <<"d", "e", "f", "i", "n", "e", " ", "t", "e", "s", "t">>,
     <<"w", "h", "a", "t", " ", "d", "o", "e", "s", " ", "t", "e", "s", "t", " ",
       "m", "e", "a", "n">>,
     <<"d", "e", "f", "i", "n", "e", " ", "2">>,
     <<"D", "e", "f", "i", "n", "e", " ", "t", "e", "s", "t", "\n">>,
     <<"d", "e", "f", "i", "n", "e", " ", "U+212A">>,
     <<"h", "e", "l", "l", "o">>}

\* the queries whose arithmetic the model holds
ResolverQueries ==
    {q \in NamedQueries
            \cup UNION {[1..n -> {"2", "/", ".", "(", ")", "X"}] : n \in 1..MaxQueryLen} :
        _solve_math(q).kind # "beyond"}

InitResolver ==
    /\ res \in {Asked(q, w) : q \in ResolverQueries, w \in WebResultLists}
    /\ req = [p \in Requests |-> Idle]
    /\ started = 0
    /\ capacity = 0
    /\ cache = <<>>
    /\ added = <<>>
    /\ ret = NoCall
    /\ api_keys = <<>>
    /\ call = NoRequest

GetInfobox(env) ==
    /\ res.op = "asked"
    /\ res' = Answered(res.query, res.web_results, env,
                       get_infobox(res.web_results, res.query, env))
    /\ UNCHANGED <<cacheVars, clientVars, serverVars>>

NextResolver == \E env \in Environments : GetInfobox(env)

SpecResolver == InitResolver /\ [][NextResolver]_vars

(***************************************************************************)
(* The server: the module-level search_cache, brave_client and             *)
(* infobox_resolver under concurrent GET /api/search requests              *)
(***************************************************************************)

RequestArgs ==
    {Args(None, None, None, None),
     Args(Some(Q1), None, None, None),
     Args(Some(Q1), Some("off"), Some("true"), Some(<<"x">>)),
     Args(Some(<<"2", ".", "^", "1", "0", "2", "4">>), Some("banana"), Some("false"),
          Some(<<"-", "1">>))}

\* the bodies the search service answers 200 with
JsonBodies ==
    {JsonData(Some([results |-> Some(<<PlainItem, WikiItem>>)]), Some(<<PlainItem>>)),
     JsonData(None, None)}

\* the arguments of the image requests
ImageArgs == {Args(None, None, None, None), Args(Some(Q1), Some("off"), None, None)}

\* the bodies the image search answers 200 with: an item with a thumbnail
\* and one without, no results at all, an item with a thumbnail and no url
ImageItem ==
    [url |-> Some(<<"u1">>), title |-> Some(<<"Example">>),
     thumbnail |-> [src |-> Some(<<"t1">>)]]
ImageBodies ==
    {JsonData(None, Some(<<ImageItem, PlainItem>>)),
     JsonData(None, None),
     JsonData(None, Some(<<[ImageItem EXCEPT !.url = None]>>))}

\* what the dictionary and the encyclopedia answer the server's resolver
ServerEnvironments ==
    {[dict |-> Answer(404, DictNoEnglish), wiki |-> [i \in 1..3 |-> w]] :
        w \in {Answer(404, WikiSummary), Answer(200, WikiSummary)}}

Init ==
    /\ capacity = ServerCapacity
    /\ cache = <<>>
    /\ api_keys = <<"k1", "k2">>
    /\ req = [p \in Requests |-> Idle]
    /\ started = 0
    /\ res = NoResolve
    /\ added = <<>>
    /\ ret = NoCall
    /\ call = NoRequest

Next ==
    \E p \in Requests :
        \/ \E args \in RequestArgs : Start(p, args)
        \/ GetStep(p)
        \/ \E outcome \in OutcomesOf(api_keys), json_data \in JsonBodies :
               Fetch(p, outcome, json_data)
        \/ AddAppend(p)
        \/ AddCheck(p)
        \/ AddPop(p)
        \/ \E env \in ServerEnvironments : Resolve(p, env)
        \/ \E args \in ImageArgs : StartImages(p, args)
        \/ \E outcome \in OutcomesOf(api_keys), json_data \in ImageBodies :
               FetchImages(p, outcome, json_data)
        \/ Finish(p)

Spec == Init /\ [][Next]_vars

\* no other request is being handled: the server handles p alone
Alone(p) == \A o \in Requests \ {p} : req[o].pc = "idle"

\* the server when its requests arrive one at a time: a request is read and
\* handled only while no other request is in the handler
NextSequential ==
    \E p \in Requests :
        /\ Alone(p)
        /\ \/ \E args \in RequestArgs : Start(p, args)
           \/ GetStep(p)
           \/ \E outcome \in OutcomesOf(api_keys), json_data \in JsonBodies :
                  Fetch(p, outcome, json_data)
           \/ AddAppend(p)
           \/ AddCheck(p)
           \/ AddPop(p)
           \/ \E env \in ServerEnvironments : Resolve(p, env)
           \/ \E args \in ImageArgs : StartImages(p, args)
           \/ \E outcome \in OutcomesOf(api_keys), json_data \in ImageBodies :
                  FetchImages(p, outcome, json_data)
           \/ Finish(p)

SpecSequential == Init /\ [][NextSequential]_vars

\* the server with a cache built as SearchCache(0), SearchCache(1) or
\* SearchCache(2) instead of the capacity of line 352
InitSmallCache ==
    /\ capacity \in {0, 1, 2}
    /\ cache = <<>>
    /\ api_keys = <<"k1", "k2">>
    /\ req = [p \in Requests |-> Idle]
    /\ started = 0
    /\ res = NoResolve
    /\ added = <<>>
    /\ ret = NoCall
    /\ call = NoRequest

SpecSmallCache == InitSmallCache /\ [][Next]_vars

(***************************************************************************)
(* Claims about the stand-alone SearchCache (checked under SpecCache)      *)
(***************************************************************************)
\* the add calls so far all had different keys
DistinctKeys(h) ==
    \A i, j \in 1..Len(h) : i # j => KeyOf(h[i]) # KeyOf(h[j])

\* what a get of the key of the i-th added entry returns now
Retrieved(i) == get(cache, KeyOf(added[i])).ret

\* equality of an entry and a key, field by field
SameKey(search, criteria) ==
    /\ search.query = criteria.query
    /\ search.safe = criteria.safe
    /\ search.is_videos = criteria.is_videos
    /\ search.page = criteria.page

\* the positions of the entries of c stored under a key
Positions(c, criteria) == {i \in 1..Len(c) : SameKey(c[i], criteria)}

\* the smallest member of a non-empty set of numbers
Least(S) == CHOOSE i \in S : \A j \in S : i <= j

\* the last n entries of a sequence
LastN(h, n) == SubSeq(h, Len(h) - n + 1, Len(h))

\* C2 as stated: after C+1 adds with pairwise distinct keys into an empty
\* capacity-C cache (C >= 1), the 2nd..(C+1)th entries are retrievable and
\* the 1st is absent.
C2_SecondToLastRetained ==
    (capacity >= 1 /\ Len(added) = capacity + 1 /\ DistinctKeys(added)) =>
        /\ \A i \in 2..(capacity + 1) : Retrieved(i) = Some(added[i].results)
        /\ IsNone(Retrieved(1))

\* C2 as amended: after C+1 adds with pairwise distinct keys into an empty
\* capacity-C cache (C >= 1), the 3rd..(C+1)th entries are retrievable and
\* the 1st and the 2nd are absent.
C2_ThirdToLastRetained ==
    (capacity >= 1 /\ Len(added) = capacity + 1 /\ DistinctKeys(added)) =>
        /\ \A i \in 3..(capacity + 1) : Retrieved(i) = Some(added[i].results)
        /\ IsNone(Retrieved(1))
        /\ IsNone(Retrieved(2))

\* C2's case: four distinct keys were added to a capacity-3 cache
C2_Witness ==
    /\ capacity = 3
    /\ Len(added) = capacity + 1
    /\ DistinctKeys(added)
    /\ ret.op = "add"

\* one add call: the entry goes to the tail, the head is removed exactly when
\* the size after appending is at or above the capacity
C3_AddStep ==
    (added' # added) =>
        LET e == added'[Len(added')]
            a == Append(cache, e)
        IN  /\ added' = Append(added, e)
            /\ cache' = IF Len(a) >= capacity THEN Tail(a) ELSE a
            /\ ret'.op = "add"
            /\ ret'.value = Some(e.results)

\* after n adds with distinct keys into a capacity-C cache, C >= 2, the
\* retrievable keys are exactly those of the last min(n, C-1) adds
C3_Retained ==
    (capacity >= 2 /\ DistinctKeys(added)) =>
        LET n == Len(added)
            m == Min(n, capacity - 1)
        IN  \A criteria \in CacheKeys :
                ~IsNone(get(cache, criteria).ret)
                    <=> \E i \in (n - m + 1)..n : KeyOf(added[i]) = criteria

\* C3: add appends at the tail, pops index 0 exactly when the size after the
\* append is >= capacity and returns its results argument; hence with
\* distinct keys the most recent min(n, C-1) keys are the retrievable ones.
C3_AddContract == [][C3_AddStep]_vars /\ []C3_Retained

\* C3's case: capacity 2, q1 then q2 added, q1 looked up and absent
C3_Witness ==
    /\ capacity = 2
    /\ Len(added) = 2
    /\ DistinctKeys(added)
    /\ ret.op = "get"
    /\ ret.key = KeyOf(added[1])
    /\ IsNone(ret.value)

\* C5: get returns the results of the first entry in insertion order whose
\* four key fields all equal the requested ones, and None when there is no
\* such entry (in particular on an empty cache).
C5_GetExactMatch ==
    (ret.op = "get") =>
        IF Positions(cache, ret.key) = {}
        THEN IsNone(ret.value)
        ELSE ret.value = Some(cache[Least(Positions(cache, ret.key))].results)

\* C5's case: a get missed although an entry differing only in the page is
\* stored
C5_Witness ==
    /\ ret.op = "get"
    /\ IsNone(ret.value)
    /\ \E i \in 1..Len(cache) :
          /\ cache[i].query = ret.key.query
          /\ cache[i].safe = ret.key.safe
          /\ cache[i].is_videos = ret.key.is_videos
          /\ cache[i].page # ret.key.page

\* the cache holds the most recently added entries, oldest first, whatever
\* gets were made in between
C6_Fifo ==
    /\ Len(cache) = Min(Len(added), IF capacity >= 1 THEN capacity - 1 ELSE 0)
    /\ cache = LastN(added, Len(cache))

\* C6: a get, hit or miss, leaves the entry list as it is, so the entries
\* are evicted in insertion order whatever was looked up.
C6_GetNoSideEffect ==
    [][(added' = added) => (cache' = cache)]_vars /\ []C6_Fifo

\* C6's case: a get just hit the oldest of two or more entries
C6_Witness ==
    /\ ret.op = "get"
    /\ ~IsNone(ret.value)
    /\ Len(cache) >= 2
    /\ SameKey(cache[1], ret.key)

(***************************************************************************)
(* Claims about BraveClient._make_request (checked under SpecClient)       *)
(***************************************************************************)
\* the pool positions whose call answers 200
Successes(outcome) ==
    {i \in DOMAIN outcome : ~outcome[i].raised /\ outcome[i].status_code = 200}

\* C7: the credentials are tried in pool order, each position once, up to
\* and including the first whose call answers 200; that response is returned
\* and, when no call answers 200 (or the pool is empty), None.  The number of
\* outbound calls is the position of the first 200, or the pool size.
C7_Rotation ==
    (call.op = "request") =>
        LET ok == Successes(call.outcome)
            last == IF ok = {} THEN Len(api_keys) ELSE Least(ok)
        IN  /\ Len(call.sent) = last
            /\ \A i \in 1..last : call.sent[i] = [token |-> api_keys[i], pos |-> i]
            /\ IsNone(call.response) <=> (ok = {})
            /\ (ok # {}) =>
                    call.response =
                        Some([status_code |-> 200, token |-> api_keys[last], pos |-> last])

\* C7's case: pool [k1, k2], k1 answers 429 and k2 answers 200
C7_Witness ==
    /\ call.op = "request"
    /\ api_keys = <<"k1", "k2">>
    /\ call.outcome = <<Status(429), Status(200)>>
    /\ Len(call.sent) = 2
    /\ ~IsNone(call.response)
    /\ Val(call.response).token = "k2"

\* a _make_request call leaves the pool as it is and sends its first
\* request with the first credential, whatever the call before it did
C20_CallStep ==
    /\ api_keys' = api_keys
    /\ (call' # call /\ api_keys # <<>>) =>
           /\ call'.sent # <<>>
           /\ call'.sent[1] = [token |-> api_keys[1], pos |-> 1]

\* C20: the pool keeps no state between calls: no call changes its contents
\* or order, and every call starts at the first credential whatever the
\* outcomes (rate limits, failures, successes) of the call before it
C20_PoolStateless == [][C20_CallStep]_vars

\* the call before the last had its first credential rate limited; the
\* last call began with the first credential again and the pool is intact
C20_Witness ==
    /\ call.op = "request"
    /\ api_keys = <<"k1", "k2", "k1">>
    /\ call.earlier = Some(Status(429))
    /\ call.sent[1] = [token |-> "k1", pos |-> 1]
    /\ call.outcome[1] = Status(200)

(***************************************************************************)
(* Claims about the stand-alone InfoboxResolver (checked under             *)
(* SpecResolver)                                                           *)
(***************************************************************************)
\* the keys of the dict each strategy returns
CalcFields == {"infotype", "equ", "result"}
DefinitionFields == {"word", "type", "definition", "url", "infotype"}
WikipediaFields == {"title", "info", "url", "infotype"}

\* the requests of a log that went to the given service
SentTo(sent, service) == {i \in 1..Len(sent) : sent[i].service = service}

\* get_infobox has returned (no exception left it)
ResolverReturned == res.op = "get_infobox" /\ res.kind = "return"

\* C9: get_infobox returns the result of the first strategy, in the order
\* arithmetic, definition, Wikipedia, that is not absent; the dictionary
\* request is sent only if the arithmetic strategy yielded absent, summary
\* requests only if the definition strategy yielded absent too, and the dict
\* returned has the keys of exactly one strategy
C9_FirstStrategyWins ==
    ResolverReturned =>
        LET math == _solve_math(res.query)
            def == _get_definition(res.query, res.env.dict)
            wiki == _get_wikipedia_summary(res.web_results, res.env.wiki)
        IN  /\ res.box = IF ~IsNone(math.box) THEN math.box
                          ELSE IF ~IsNone(def.box) THEN def.box
                          ELSE wiki.box
            /\ SentTo(res.sent, "wiktionary") # {} => IsNone(math.box)
            /\ SentTo(res.sent, "wikipedia") # {} => IsNone(math.box) /\ IsNone(def.box)
            /\ \A i \in SentTo(res.sent, "wiktionary"), j \in SentTo(res.sent, "wikipedia") :
                   i < j
            /\ ~IsNone(res.box) =>
                   \/ Val(res.box).infotype = "calc" /\ DOMAIN Val(res.box) = CalcFields
                   \/ Val(res.box).infotype = "definition"
                          /\ DOMAIN Val(res.box) = DefinitionFields
                   \/ Val(res.box).infotype = "wikipedia"
                          /\ DOMAIN Val(res.box) = WikipediaFields

\* a Wikipedia summary is returned after a dictionary request for a query
\* that is no arithmetic
C9_Witness ==
    /\ ResolverReturned
    /\ ~IsNone(res.box)
    /\ Val(res.box).infotype = "wikipedia"
    /\ SentTo(res.sent, "wiktionary") # {}
    /\ SentTo(res.sent, "wikipedia") # {}

\* the group of the first arithmetic template, from template i on, that
\* the query matches; None if it matches none
RECURSIVE MatchedFrom(_, _)
MatchedFrom(query, i) ==
    IF i > Len(maths_patterns) THEN None
    ELSE IF ~IsNone(MatchGroup(maths_patterns[i].prefix, "expr",
                               maths_patterns[i].suffix, query))
         THEN MatchGroup(maths_patterns[i].prefix, "expr",
                         maths_patterns[i].suffix, query)
    ELSE MatchedFrom(query, i + 1)

\* the query matches an arithmetic template and evaluating the matched
\* expression fails
EvaluationFails(query) ==
    /\ ~IsNone(MatchedFrom(query, 1))
    /\ eval(Sanitize(strip(Val(MatchedFrom(query, 1))))).kind = "raise"

\* C10: whenever the query matches an arithmetic template and evaluating the
\* matched expression fails, whatever the failure, get_infobox returns (no
\* exception leaves the resolver) and what it returns is no calculation
C10_EvaluationFailureAbsent ==
    (res.op = "get_infobox" /\ EvaluationFails(res.query)) =>
        /\ res.kind = "return"
        /\ IsNone(res.box) \/ Val(res.box).infotype # "calc"

\* C10, the failures the except clause names: these yield absent
C10_CaughtFailureAbsent ==
    (/\ res.op = "get_infobox"
     /\ EvaluationFails(res.query)
     /\ eval(Sanitize(strip(Val(MatchedFrom(res.query, 1))))).exc \in CaughtByMath) =>
        /\ res.kind = "return"
        /\ IsNone(res.box) \/ Val(res.box).infotype # "calc"

\* an evaluation failure left get_infobox as an exception
C10_Propagated ==
    res.op = "get_infobox" /\ EvaluationFails(res.query) /\ res.kind = "raise"

\* the six templates, each around a well-formed integer expression over
\* + - * x / <U+00F7> ^ and parentheses: the query and its expression
C11_Cases ==
    {[query |-> <<"2", "+", "2">>, expr |-> <<"2", "+", "2">>],
     [query |-> <<"2", "+", "2", "=">>, expr |-> <<"2", "+", "2">>],
     [query |-> <<"5", "^", "2">>, expr |-> <<"5", "^", "2">>],
     [query |-> <<"6", "/", "2">>, expr |-> <<"6", "/", "2">>],
     [query |-> <<"W", "h", "a", "t", " ", "i", "s", " ", "3", "*", "3">>,
      expr |-> <<"3", "*", "3">>],
     [query |-> <<"s", "o", "l", "v", "e", " ", "2", " ", "x", " ", "3">>,
      expr |-> <<"2", " ", "x", " ", "3">>],
     [query |-> <<"c", "a", "l", "c", " ", "(", "2", "+", "3", ")", "*", "4">>,
      expr |-> <<"(", "2", "+", "3", ")", "*", "4">>],
     [query |-> <<"C", "a", "l", "c", "u", "l", "a", "t", "e", " ", "7", "-", "1", "0">>,
      expr |-> <<"7", "-", "1", "0">>],
     [query |-> <<"6", "U+00F7", "2">>, expr |-> <<"6", "U+00F7", "2">>]}

\* the expression with x, the division sign U+00F7 and ^ replaced by the
\* multiply, divide and power operators
C11_Normalized(expr) ==
    replace(replace(replace(expr, <<"x">>, <<"*">>), <<"U+00F7">>, <<"/">>),
            <<"^">>, <<"*", "*">>)

\* the calculation dict of an expression: its normalized text and the
\* decimal string of its value
C11_Expected(expr) ==
    [infotype |-> "calc", equ |-> C11_Normalized(expr),
     result |-> str(eval(C11_Normalized(expr)).v)]

\* get_infobox answered case t with the calculation of its expression
C11_Answered(t) ==
    (res.op = "get_infobox" /\ res.query = t.query) =>
        /\ res.kind = "return"
        /\ res.box = Some(C11_Expected(t.expr))
        /\ res.sent = <<>>

\* C11: for each of the six templates around a well-formed integer
\* expression over + - * x <U+00F7> ^ and parentheses, the arithmetic strategy
\* returns {infotype: "calc", equ, result}, equ being the expression with the
\* aliases replaced and result the decimal string of its value
C11_TemplatesAnswered == \A t \in C11_Cases : C11_Answered(t)

\* C11 without the division sign U+00F7: the cases written with the
\* characters of the source's character class are answered
C11_SourceCharactersAnswered ==
    \A t \in C11_Cases :
        (\A i \in 1..Len(t.expr) : t.expr[i] # "U+00F7") => C11_Answered(t)

\* "6<U+00F7>2" was asked and no calculation came back
C11_DivisionSignUnanswered ==
    /\ res.op = "get_infobox"
    /\ res.query = <<"6", "U+00F7", "2">>
    /\ res.kind = "return"
    /\ IsNone(res.box) \/ Val(res.box).infotype # "calc"

\* a templated query was answered with its calculation
C11_Witness ==
    /\ res.op = "get_infobox"
    /\ res.query = <<"W", "h", "a", "t", " ", "i", "s", " ", "3", "*", "3">>
    /\ res.box = Some([infotype |-> "calc", equ |-> <<"3", "*", "3">>, result |-> <<"9">>])

\* the strategy was run by the get_infobox call
Tried(strategy) == \E i \in 1..Len(res.tried) : res.tried[i] = strategy

\* c is an ASCII letter
C12_AsciiLetter(c) == \E i \in 1..26 : c \in {UpperCase[i], LowerCase[i]}

\* the lower-case form of an ASCII capital, any other character itself
C12_AsciiLower(c) ==
    IF \E i \in 1..26 : UpperCase[i] = c
    THEN LowerCase[CHOOSE i \in 1..26 : UpperCase[i] = c]
    ELSE c

\* the letters and the case folding of a template: those of ASCII, or
\* (folded) those the regular expressions of the source go by
C12_Letter(c, folded) == IF folded THEN InWordClass(c) ELSE C12_AsciiLetter(c)
C12_Fold(c, folded) == IF folded THEN Lower(c) ELSE C12_AsciiLower(c)

\* the whole of s is prefix, one or more letters and suffix, the case of
\* prefix and suffix set aside
C12_Templated(s, prefix, suffix, folded) ==
    /\ Len(s) > Len(prefix) + Len(suffix)
    /\ \A i \in 1..Len(prefix) : C12_Fold(s[i], folded) = prefix[i]
    /\ \A i \in 1..Len(suffix) :
           C12_Fold(s[Len(s) - Len(suffix) + i], folded) = suffix[i]
    /\ \A i \in (Len(prefix) + 1)..(Len(s) - Len(suffix)) : C12_Letter(s[i], folded)

\* the whole query is `what does <word> mean` or `define <word>`
C12_IsTemplate(s, folded) ==
    \/ C12_Templated(s, <<"w", "h", "a", "t", " ", "d", "o", "e", "s", " ">>,
                     <<" ", "m", "e", "a", "n">>, folded)
    \/ C12_Templated(s, <<"d", "e", "f", "i", "n", "e", " ">>, <<>>, folded)

\* the dictionary requests of the call are one or none, as told
C12_RequestsIff(matches) ==
    Cardinality(SentTo(res.sent, "wiktionary")) = IF matches THEN 1 ELSE 0

\* C12: the definition strategy sends a dictionary request only for a query
\* that is, as a whole, `what does <word> mean` or `define <word>` with
\* <word> one or more ASCII letters; for any other query it sends nothing and
\* yields absent, and for such a query it sends exactly one request
C12_RequestOnlyForTemplate ==
    (ResolverReturned /\ Tried("definition")) =>
        /\ C12_RequestsIff(C12_IsTemplate(res.query, FALSE))
        /\ ~C12_IsTemplate(res.query, FALSE) =>
               IsNone(res.box) \/ Val(res.box).infotype # "definition"

\* C12 as the code has it: the templates are matched up to a newline that
\* ends the query, and the four characters U+0130, U+0131, U+017F and U+212A
\* count as the letters i, i, s and k
C12_RequestForFoldedTemplate ==
    (ResolverReturned /\ Tried("definition")) =>
        LET s == IF res.query # <<>> /\ res.query[Len(res.query)] = "\n"
                 THEN SubSeq(res.query, 1, Len(res.query) - 1) ELSE res.query
        IN  C12_RequestsIff(C12_IsTemplate(s, TRUE))

\* a dictionary request was sent for a query that is none of the two
\* templates around ASCII letters
C12_RequestOutsideTemplate ==
    /\ ResolverReturned
    /\ Tried("definition")
    /\ ~C12_IsTemplate(res.query, FALSE)
    /\ SentTo(res.sent, "wiktionary") # {}

\* the dictionary request failed in one of the three ways: the transport
\* failed, the status is not 200, or the 200 answer has no English entries
C13_DictionaryFailed(o) ==
    \/ o.raised
    \/ o.status_code # 200
    \/ IsNone(o.data.en)
    \/ Val(o.data.en) = <<>>

\* C13: when the query matches a definition template (the dictionary was
\* asked) and the dictionary answers with a status other than 200, fails at
\* transport level or answers 200 without English entries, the definition
\* strategy yields absent, no exception leaves get_infobox, and get_infobox
\* goes on to the Wikipedia strategy and returns what that yields
C13_DefinitionFailureFallsThrough ==
    (/\ res.op = "get_infobox"
     /\ ~IsNone(MatchGroup(<<"d", "e", "f", "i", "n", "e", " ">>, "word", <<>>, res.query))
            \/ ~IsNone(MatchGroup(<<"w", "h", "a", "t", " ", "d", "o", "e", "s", " ">>,
                                  "word", <<" ", "m", "e", "a", "n">>, res.query))
     /\ C13_DictionaryFailed(res.env.dict)) =>
        /\ res.kind = "return"
        /\ Cardinality(SentTo(res.sent, "wiktionary")) = 1
        /\ res.tried = <<"math", "definition", "wikipedia">>
        /\ res.box = _get_wikipedia_summary(res.web_results, res.env.wiki).box
        /\ IsNone(res.box) \/ Val(res.box).infotype = "wikipedia"

\* "define test": the dictionary answered 404 and a Wikipedia summary was
\* returned
C13_Witness ==
    /\ ResolverReturned
    /\ res.query = <<"d", "e", "f", "i", "n", "e", " ", "t", "e", "s", "t">>
    /\ res.env.dict = Answer(404, DictNoEnglish)
    /\ ~IsNone(res.box)
    /\ Val(res.box).infotype = "wikipedia"

\* the positions (1-based) among the first three web results whose url
\* contains "wikipedia.org"
C14_Candidates(web_results) ==
    {i \in 1..Min(3, Len(web_results)) :
        /\ ~IsNone(web_results[i].url)
        /\ \E k \in 1..Len(Val(web_results[i].url)) :
               Val(web_results[i].url)[k] = "wikipedia.org"}

\* the candidates whose summary request answers 200
C14_Found(web_results, outcome) ==
    {i \in C14_Candidates(web_results) :
        ~outcome[i].raised /\ outcome[i].status_code = 200}

\* the summary requests of the call, in the order sent
C14_Summaries == SelectSeq(res.sent, LAMBDA r : r.service = "wikipedia")

\* C14: the Wikipedia strategy sends summary requests only for results among
\* the first three whose url contains "wikipedia.org", in result order, one
\* each; a status other than 200 or a transport failure moves on to the next
\* candidate; the first 200 answer is returned and no later candidate is
\* asked; the strategy yields absent exactly when no candidate answers 200
C14_WikipediaScan ==
    (ResolverReturned /\ Tried("wikipedia")) =>
        LET found == C14_Found(res.web_results, res.env.wiki)
            asked == IF found = {} THEN C14_Candidates(res.web_results)
                     ELSE {i \in C14_Candidates(res.web_results) : i <= Least(found)}
        IN  /\ Len(C14_Summaries) = Cardinality(asked)
            /\ \A k \in 1..Len(C14_Summaries) : C14_Summaries[k].pos \in asked
            /\ \A j, k \in 1..Len(C14_Summaries) :
                   j < k => C14_Summaries[j].pos < C14_Summaries[k].pos
            /\ IsNone(res.box) <=> found = {}
            /\ found # {} =>
                   res.box = Some([title |-> res.env.wiki[Least(found)].data.title,
                                   info |-> res.env.wiki[Least(found)].data.extract,
                                   url |-> res.env.wiki[Least(found)].data.page,
                                   infotype |-> "wikipedia"])

\* of three candidates the first failed at transport level, the second
\* answered 404 and the third answered 200 and was returned
C14_Witness ==
    /\ ResolverReturned
    /\ Len(C14_Summaries) = 3
    /\ C14_Summaries[1].raised
    /\ C14_Summaries[2].status_code = 404
    /\ C14_Summaries[3].status_code = 200
    /\ ~IsNone(res.box)
    /\ Len(res.web_results) = 4

(***************************************************************************)
(* Claims about the server (checked under Spec)                            *)
(***************************************************************************)
\* the reply is the JSON object {infobox, results}
IsJson(reply) == ~IsNone(reply) /\ DOMAIN Val(reply) = {"infobox", "results"}

\* the reply is the given string
IsText(reply, s) == reply = Some(Text(s))

InFlight == {p \in Requests : req[p].pc \in {"check", "pop"}}

\* C4 as stated: the cache never holds more entries than its capacity
C4_SizeWithinCapacity == Len(cache) <= capacity

\* C4: the cache holds at most capacity - 1 entries plus one for every add
\* that has appended and not yet finished its eviction; so the capacity is
\* kept while at most one add is between its two steps
C4_SizeWithinCapacityAndInFlight ==
    /\ Len(cache) <= capacity - 1 + Cardinality(InFlight)
    /\ Cardinality(InFlight) <= 1 => Len(cache) <= capacity

\* two interleaved adds have both appended: the cache is over its capacity
C4_Witness == Cardinality(InFlight) = 2 /\ Len(cache) = capacity + 1

\* the steps of request p
Steps(p) == req'[p] # req[p]

\* C8: a request that missed and whose fetch returned None answers
\* "noresults" in that very step, none of its steps up to there changes the
\* cache, and the cache grows only by the append of a request that missed
\* and fetched results
C8_NoResultsStep ==
    \A p \in Requests :
        /\ (Steps(p) /\ req[p].pc \in {"idle", "get", "fetch"}) => cache' = cache
        /\ (Steps(p) /\ req[p].pc = "fetch") =>
               /\ req'[p].sent # <<>>
               /\ IsNone(req'[p].fetched_results) =>
                      req'[p].pc = "done" /\ IsText(req'[p].reply, "noresults")
               /\ ~IsNone(req'[p].fetched_results) => req'[p].pc = "append"
        /\ (Steps(p) /\ cache' # cache /\ Len(cache') >= Len(cache)) =>
               /\ IsNone(req[p].cached)
               /\ ~IsNone(req[p].fetched_results)
               /\ cache' = Append(cache, CachedSearch(Criteria(req[p]),
                                                     Val(req[p].fetched_results)))

C8_NoResultsState ==
    \A p \in Requests :
        /\ IsText(req[p].reply, "noresults") =>
               /\ IsNone(req[p].cached)
               /\ IsNone(req[p].fetched_results)
               /\ Len(req[p].sent) = Len(api_keys)
        /\ (req[p].route = "search"
               /\ req[p].pc \in {"append", "check", "pop", "resolve", "done"}
               /\ req[p].sent # <<>> /\ IsNone(req[p].fetched_results)) =>
               IsText(req[p].reply, "noresults")

C8_NoResults == [][C8_NoResultsStep]_vars /\ []C8_NoResultsState

\* a request got "noresults" while the cache held an entry
C8_Witness ==
    \E p \in Requests : IsText(req[p].reply, "noresults") /\ cache # <<>>

\* the request thread p serves a request that came without q
NoQuery(p) == req[p].route # "" /\ IsNone(req[p].args.q)

\* a request without q has answered "noquery" and has made no call on the
\* cache, the client or the resolver
C15_NoQueryState ==
    \A p \in Requests :
        NoQuery(p) =>
            /\ req[p].pc = "done"
            /\ IsText(req[p].reply, "noquery")
            /\ req[p].calls = <<>>
            /\ req[p].sent = <<>>
            /\ req[p].i = 0
            /\ IsNone(req[p].cached)
            /\ IsNone(req[p].fetched_results)
            /\ IsNone(req[p].resolved)

\* the step that receives a request without q leaves the cache as it is
C15_NoQueryStep ==
    \A p \in Requests :
        (Steps(p) /\ IsNone(req'[p].args.q) /\ req'[p].route # "") => cache' = cache

\* C15: a search or image request without q is answered "noquery", a string
\* and neither an error nor the JSON payload, without a cache lookup, a
\* cache insertion, an upstream call or a resolver call
C15_NoQuery == [][C15_NoQueryStep]_vars /\ []C15_NoQueryState

\* a search request and an image request, both without q, were answered
\* while the cache held an entry
C15_Witness ==
    /\ cache # <<>>
    /\ \E p, o \in Requests :
          /\ NoQuery(p) /\ req[p].route = "search" /\ IsText(req[p].reply, "noquery")
          /\ NoQuery(o) /\ req[o].route = "images" /\ IsText(req[o].reply, "noquery")

\* what the resolver produced for request p: None if it was not invoked or
\* returned None
Produced(p) ==
    IF IsNone(req[p].resolved) THEN None ELSE Val(req[p].resolved).box

\* C16: in every {infobox, results} payload of a search request the infobox
\* is either the dict the resolver returned or the string "null"; it is the
\* string "null" exactly when the resolver returned None or was not invoked,
\* and it is never the JSON null
C16_InfoboxOrNullString ==
    \A p \in Requests :
        IsJson(req[p].reply) =>
            /\ Val(req[p].reply).infobox =
                   IF IsNone(Produced(p)) THEN [str |-> "null"]
                   ELSE [dict |-> Val(Produced(p))]
            /\ req[p].infobox = Produced(p)
            /\ Val(req[p].reply).infobox # [null |-> TRUE]

\* one payload carries a Wikipedia infobox, another the string "null" after
\* the resolver returned None
C16_Witness ==
    \E p, o \in Requests :
        /\ IsJson(req[p].reply)
        /\ Val(req[p].reply).infobox = [str |-> "null"]
        /\ ~IsNone(req[p].resolved)
        /\ IsJson(req[o].reply)
        /\ DOMAIN Val(req[o].reply).infobox = {"dict"}

\* the number of calls of a method among the calls of request p
Calls(p, method) ==
    Cardinality({k \in 1..Len(req[p].calls) : req[p].calls[k] = method})

\* C17: a search request with videos=true never calls get_infobox (nothing
\* is evaluated, no dictionary or Wikipedia request is sent) and its payload
\* carries the infobox "null" with the results, cached or fetched; a request
\* for web results that obtained results, from the cache or from upstream,
\* calls get_infobox exactly once, and no request calls it twice
C17_VideosSkipInfobox ==
    \A p \in Requests :
        /\ Calls(p, "get_infobox") <= 1
        /\ IsNone(req[p].resolved) <=> Calls(p, "get_infobox") = 0
        /\ (req[p].route = "search" /\ req[p].is_videos) =>
               /\ Calls(p, "get_infobox") = 0
               /\ IsNone(req[p].infobox)
               /\ (req[p].pc = "done" /\ ~IsText(req[p].reply, "noresults")) =>
                      req[p].reply = Some(Json([str |-> "null"], req[p].results_list))
        /\ (req[p].route = "search" /\ ~req[p].is_videos /\ req[p].pc = "done"
               /\ (~IsNone(req[p].cached) \/ ~IsNone(req[p].fetched_results))) =>
               Calls(p, "get_infobox") = 1

\* a video request was answered from the cache, and a web request that
\* fetched its results had its infobox resolved
C17_Witness ==
    \E p, o \in Requests :
        /\ req[p].is_videos
        /\ ~IsNone(req[p].cached)
        /\ IsJson(req[p].reply)
        /\ Val(req[p].reply).results # <<>>
        /\ ~req[o].is_videos
        /\ IsJson(req[o].reply)
        /\ ~IsNone(req[o].fetched_results)
        /\ Calls(o, "get_infobox") = 1

\* the pairs of positions of c that hold entries with the same key
Duplicates(c) ==
    {pair \in (1..Len(c)) \X (1..Len(c)) :
        pair[1] < pair[2] /\ KeyOf(c[pair[1]]) = KeyOf(c[pair[2]])}

\* request p missed, fetched results upstream and has appended its entry
Inserted(p) ==
    /\ req[p].route = "search"
    /\ IsNone(req[p].cached)
    /\ req[p].sent # <<>>
    /\ ~IsNone(req[p].fetched_results)
    /\ Calls(p, "search_cache.add") = 1

\* a step that brings a second entry for a key into the cache is the append
\* of a request that had missed on that key and fetched its results upstream
C18_DuplicateStep ==
    (Cardinality(Duplicates(cache')) > Cardinality(Duplicates(cache))) =>
        \E p \in Requests :
            /\ Steps(p)
            /\ req[p].pc = "append"
            /\ Inserted(p)'
            /\ \E i \in 1..Len(cache) : KeyOf(cache[i]) = Criteria(req[p])
            /\ cache' = Append(cache, CachedSearch(Criteria(req[p]), req[p].results_list))

\* C18: the lookup, the fetch and the insertion of a request are steps of
\* their own, nothing keeps a second request from missing on a key between
\* the miss and the insertion of a first one, and every second entry for a
\* key comes from such a request: it missed, called upstream and inserted
C18_DuplicatesByConcurrentMisses == [][C18_DuplicateStep]_vars

\* two requests for the same key have both missed, both fetched upstream and
\* both inserted: the cache holds two entries with that key
C18_Witness ==
    \E p, o \in Requests :
        /\ p # o
        /\ Criteria(req[p]) = Criteria(req[o])
        /\ Inserted(p)
        /\ Inserted(o)
        /\ Cardinality({i \in 1..Len(cache) : KeyOf(cache[i]) = Criteria(req[p])}) = 2

\* C19: every key stored in the cache is well-formed: its page is a
\* non-negative integer and its safety level is strict, moderate or off,
\* whatever the page and safe parameters of the requests were
C19_KeysWellFormed ==
    \A i \in 1..Len(cache) :
        /\ cache[i].page \in Nat
        /\ cache[i].safe \in {"strict", "moderate", "off"}

\* the key of every stored entry is the key of a request as the handler
\* derives it: safe as sent, or "strict" when not sent, and page the integer
\* int() reads, negative ones included, or 0
C19_KeysAsDerived ==
    \A i \in 1..Len(cache) :
        \E args \in RequestArgs :
            /\ ~IsNone(args.q)
            /\ cache[i].safe = GetDefault(args.safe, "strict")
            /\ cache[i].page = IF IsNone(args.page) THEN 0
                               ELSE GetDefault(int(Val(args.page)), 0)
            /\ cache[i].page \in Int

\* an entry is stored under the safety level "banana" and the page -1
C19_IllFormedKeyStored ==
    \E i \in 1..Len(cache) : cache[i].safe = "banana" /\ cache[i].page = -1

\* how far the handler of a request has come; i counts the entries the
\* lookup has passed
Stage(r) ==
    CASE r.pc = "idle" -> 0
      [] r.pc = "get" -> r.i
      [] r.pc = "fetch" -> MaxRequests + 2
      [] r.pc = "append" -> MaxRequests + 3
      [] r.pc = "check" -> MaxRequests + 4
      [] r.pc = "pop" -> MaxRequests + 5
      [] r.pc = "resolve" -> MaxRequests + 6
      [] r.pc = "images" -> 1
      [] OTHER -> MaxRequests + 7

\* no two requests of a log went to the same position (credential of the
\* pool, candidate of the result list)
NoRepeat(sent) ==
    \A j, k \in 1..Len(sent) :
        (j # k /\ sent[j].pos = sent[k].pos) =>
            ("service" \in DOMAIN sent[j] /\ sent[j].service # sent[k].service)

\* the outbound calls of request p stay within one per credential, one
\* dictionary request and three summary requests, none of them repeated
C21_CallsBounded(p) ==
    /\ Len(req[p].sent) <= Len(api_keys)
    /\ NoRepeat(req[p].sent)
    /\ Calls(p, "get_web_results") <= 1
    /\ ~IsNone(req[p].resolved) =>
           /\ Cardinality(SentTo(Val(req[p].resolved).sent, "wiktionary")) <= 1
           /\ Cardinality(SentTo(Val(req[p].resolved).sent, "wikipedia")) <= 3
           /\ NoRepeat(Val(req[p].resolved).sent)

\* a search request that is not answered yet stands at a position of the
\* handler that has a next step (every outbound call returns or times out),
\* and its calls stay bounded
C21_Proceeds(p) ==
    /\ req[p].pc \in {"idle", "get", "fetch", "append", "check", "pop",
                      "resolve", "done"}
    /\ C21_CallsBounded(p)

\* C21: every search request proceeds to an answer that is "noquery",
\* "noresults" or the {infobox, results} payload, after at most one call per
\* credential, one dictionary request and three summary requests, no call
\* repeated
C21_EndsInOneOfThree ==
    \A p \in Requests :
        req[p].route = "search" =>
            /\ C21_Proceeds(p)
            /\ req[p].pc = "done" =>
                   \/ IsText(req[p].reply, "noquery")
                   \/ IsText(req[p].reply, "noresults")
                   \/ IsJson(req[p].reply)

\* C21 with the fourth ending the code has: the exception that leaves
\* get_infobox ends the request as a server error
C21_EndsOrFails ==
    \A p \in Requests :
        req[p].route = "search" =>
            /\ C21_Proceeds(p)
            /\ req[p].pc = "done" =>
                   \/ IsText(req[p].reply, "noquery")
                   \/ IsText(req[p].reply, "noresults")
                   \/ IsJson(req[p].reply)
                   \/ /\ req[p].reply = Some(ServerError("OverflowError"))
                      /\ ~IsNone(req[p].resolved)
                      /\ Val(req[p].resolved).kind = "raise"

\* every step of a request's handler takes it further, so that a request is
\* answered after a bounded number of steps
C21_Advances ==
    [][\A p \in Requests :
          (Steps(p) /\ req[p].pc # "done") => Stage(req'[p]) > Stage(req[p])]_vars

\* a search request has ended in a server error, after a fetch that tried
\* both credentials
C21_EndedInError ==
    \E p \in Requests :
        /\ req[p].route = "search"
        /\ req[p].pc = "done"
        /\ req[p].reply = Some(ServerError("OverflowError"))
        /\ Len(req[p].sent) = 2

\* C22: when the requests are handled one at a time, the cache never holds
\* two entries with the same key: an entry is inserted only after a miss on
\* its key
C22_NoDuplicateKeys == Duplicates(cache) = {}

\* a request found the entry an earlier request had inserted for its key and
\* inserted nothing
C22_Witness ==
    \E p \in Requests :
        /\ req[p].pc = "done"
        /\ ~IsNone(req[p].cached)
        /\ Calls(p, "search_cache.add") = 0
        /\ \E i \in 1..Len(cache) : KeyOf(cache[i]) = Criteria(req[p])
        /\ started >= 2

\* the requests whose add has appended and not returned yet
AddsInProgress == {p \in Requests : req[p].pc \in {"check", "pop"}}

\* the search requests with a query that are past their cache lookup
PastLookup ==
    {p \in Requests : /\ req[p].route = "search"
                      /\ ~IsNone(req[p].args.q)
                      /\ req[p].pc \notin {"idle", "get"}}

\* a completed add(k, r) on the cache c, which holds no entry with key k,
\* is followed by a get(k) that returns r exactly for a capacity of 2 and
\* more, and leaves the cache empty for a capacity of 1 or 0
AddThenGet(c) ==
    \A k \in CacheKeys, r \in WebResultLists :
        (\A i \in 1..Len(c) : KeyOf(c[i]) # k) =>
            LET a == add(c, capacity, k, r)
            IN  /\ (get(a.cache, k).ret = Some(r)) <=> (capacity >= 2)
                /\ capacity <= 1 => a.cache = <<>>

\* C23 as stated: after a completed add on a cache without the key, get
\* returns the results iff the capacity is at least 2; with capacity 1 or 0
\* the add evicts its own entry, the cache is empty after every add and every
\* search request goes upstream
C23_SelfEvicting ==
    /\ AddThenGet(cache)
    /\ capacity <= 1 =>
           /\ \A p \in Requests :
                  (req[p].pc = "resolve" /\ Calls(p, "search_cache.add") = 1
                   /\ Calls(p, "get_infobox") = 0) => cache = <<>>
           /\ \A p \in PastLookup : IsNone(req[p].cached)

\* with capacity 1 or 0, a lookup finds an entry only between the append
\* and the eviction of another request's add
C23_HitStep ==
    \A p \in Requests :
        (capacity <= 1 /\ req[p].pc = "get" /\ req'[p].pc = "resolve") =>
            AddsInProgress \ {p} # {}

\* C23 for adds that do not interleave: on the cache as it is while no add
\* is in progress, a completed add is followed by a get that returns the
\* results iff the capacity is at least 2; with capacity 1 or 0 the cache
\* holds exactly the entries of the adds in progress, so it is empty after
\* an add that ran alone, and a request goes upstream unless its lookup
\* meets the entry of an add in progress
C23_SelfEvictingAlone ==
    /\ [](/\ AddsInProgress = {} => AddThenGet(cache)
          /\ capacity <= 1 => Len(cache) = Cardinality(AddsInProgress))
    /\ [][C23_HitStep]_vars

\* with capacity 1, an add has completed and left the cache empty, and a
\* later request has gone upstream again
C23_Witness ==
    /\ capacity = 1
    /\ cache = <<>>
    /\ \E p, o \in Requests :
           /\ p # o
           /\ req[p].pc = "resolve"
           /\ Calls(p, "search_cache.add") = 1
           /\ req[o].pc = "fetch"
           /\ Criteria(req[o]) = Criteria(req[p])

\* with capacity 1, a request was answered from the entry another request
\* had appended and not yet evicted
C23_TransientHit ==
    /\ capacity <= 1
    /\ \E p \in PastLookup : ~IsNone(req[p].cached)

\* the positions of the entries for the key of request r that its scan has
\* yet to reach in the list c
Ahead(c, r) == {j \in r.i..Len(c) : Matches(c[j], Criteria(r))}

\* the eviction of a head entry with another key, while request p scans the
\* list and an entry for its key lies ahead of the scan, leaves an entry for
\* its key ahead of the scan
C24_EvictionStep ==
    \A p \in Requests :
        (/\ req[p].pc = "get"
         /\ req'[p] = req[p]
         /\ cache # <<>>
         /\ cache' = Popped(cache)
         /\ ~Matches(cache[1], Criteria(req[p]))
         /\ Ahead(cache, req[p]) # {}) => Ahead(cache', req'[p]) # {}

\* C24: a get returns the stored results whenever an entry with its key is
\* in the cache throughout the get, also when adds of other requests
\* interleave with its scan: the eviction of a different entry never makes
\* the scan skip the matching entry
C24_ScanNeverSkips == [][C24_EvictionStep]_vars

\* a lookup has ended as a miss although the cache holds an entry for its
\* key, the only entry left after the head was evicted under the scan
C24_SkippedEntry ==
    \E p \in Requests :
        /\ req[p].pc = "fetch"
        /\ IsNone(req[p].cached)
        /\ req[p].i = 2
        /\ Len(cache) = 1
        /\ Matches(cache[1], Criteria(req[p]))

\* a step of an image request leaves the cache as it is and calls neither
\* get nor add; the step that fetches calls get_img_results once and ends
\* the request
C25_ImageStep ==
    \A p \in Requests :
        (Steps(p) /\ (req[p].route = "images" \/ req'[p].route = "images")) =>
            /\ cache' = cache
            /\ capacity' = capacity
            /\ Len(SelectSeq(req'[p].calls,
                             LAMBDA m : m \in {"search_cache.get", "search_cache.add"})) = 0
            /\ req[p].pc = "images" =>
                   /\ Len(SelectSeq(req'[p].calls, LAMBDA m : m = "get_img_results")) = 1
                   /\ req'[p].pc = "done"

\* an image request with a query stands before its fetch or has called
\* get_img_results, which sent at least one request upstream
C25_WentUpstream ==
    \A p \in Requests :
        (req[p].route = "images" /\ ~IsNone(req[p].args.q)) =>
            \/ req[p].pc = "images" /\ Calls(p, "get_img_results") = 0
            \/ /\ req[p].pc = "done"
               /\ Calls(p, "get_img_results") = 1
               /\ req[p].sent # <<>>

\* whatever the upstream calls of an image request before its fetch do, it
\* is answered "noresults" exactly when get_img_results returns None
C25_NoResultsIffAbsent ==
    \A p \in Requests :
        req[p].pc = "images" =>
            \A outcome \in OutcomesOf(api_keys), json_data \in ImageBodies :
                LET f == get_img_results(api_keys, outcome, json_data)
                    r == ImagesFetched(Called(req[p], "get_img_results"), f)
                IN  IsText(r.reply, "noresults") <=> (f.kind = "return" /\ IsNone(f.ret))

\* C25: the image handler neither reads nor modifies the cache, whatever
\* the request and the upstream outcome; every image request with a query
\* goes to the upstream client, and the answer is "noresults" exactly when
\* the upstream fetch returned absent
C25_ImagesBypassCache ==
    /\ [](C25_WentUpstream /\ C25_NoResultsIffAbsent)
    /\ [][C25_ImageStep]_vars

\* an image request for a query the cache holds search results for went
\* upstream all the same and was answered "noresults"; the cache still holds
\* its entry
C25_Witness ==
    \E p \in Requests :
        /\ req[p].route = "images"
        /\ req[p].pc = "done"
        /\ IsText(req[p].reply, "noresults")
        /\ Len(req[p].sent) = 2
        /\ \E i \in 1..Len(cache) : cache[i].query = req[p].query

====
